---- MODULE Spec2Model ----
(***************************************************************************)
(* MapboxCircle (mapbox-gl-circle): the editable circle, its center and    *)
(* radius drag state machines, the suspend/resume broadcast between        *)
(* circles and the attach/detach lifecycle on a host map.                  *)
(*                                                                         *)
(* The JavaScript handlers run to completion on one thread.  Each handler  *)
(* is written as an operator from a program state (a record holding every *)
(* field of the circles, of the shared __MONOSTATE and of the host maps)   *)
(* to the program state it leaves behind, statement by statement; an       *)
(* exception is the field err, and once it is set the remaining statements *)
(* of the handler are skipped.  An action takes the current state, applies *)
(* one handler (or one host-map event with all the listeners it calls) and *)
(* stores the result.                                                      *)
(*                                                                         *)
(* Host map (mapbox-gl) conventions used below: on() appends a listener,   *)
(* also when the same function is already registered; off() removes the    *)
(* first registration of the function, from the permanent and from the     *)
(* one-time listeners, and does nothing when there is none; an event calls *)
(* the listeners registered when it fires, in order of registration, and a *)
(* one-time listener is removed just before it is called; addSource throws *)
(* when the id is taken.                                                   *)
(***************************************************************************)
EXTENDS Integers, Sequences, FiniteSets, TLC

\* options.minRadius and options.maxRadius given to every circle (scaled metres).
MinRadiusOpt == 2
MaxRadiusOpt == 3
\* Cap on the length of every listener list and registry of the model.
MaxBind == 2
\* Cap on the number of queued 'rendered' one-time listeners of a circle.
MaxQueue == 2
\* Cap on the number of debounce wrappers alive at a time.
MaxWrappers == 2

Circles == {1, 2}
Maps == {1, 2}
NoMap == 0
Undefined == -1

\* Zoom levels in tenths: negative, 0, 0.1 and 1.
ZoomTenths == {-10, 0, 1, 10}
\* Radii in metres for the step count: the default limits 10 and 1100000, and
\* two radii between them whose quarters are the squares of 65 and 66.
StepRadii == {10, 16900, 17424, 1100000}
\* No square root of the model exceeds this (its square is below 2^31).
SqrtCap == 46340
\* _updateCircle keeps the old polygon during a center drag below this radius (m).
SkipPolygonBelow == 10000

\* User agents by the two substrings _checkIfBrowserIsSafari looks for: Chrome
\* names both, Safari names 'Safari' only, Firefox names neither.
ChromeUA == [chrome |-> TRUE, safari |-> TRUE]
SafariUA == [chrome |-> FALSE, safari |-> TRUE]
FirefoxUA == [chrome |-> FALSE, safari |-> FALSE]

\* Radii in whole metres that a pointer position or a caller can produce.
Radii == (MinRadiusOpt - 1)..(MaxRadiusOpt + 1)
\* Radius arguments in half metres: 2*r is the whole-metre radius r.
HalfRadii == (2 * MinRadiusOpt - 2)..(2 * MaxRadiusOpt + 2)
Coords == {0, 1}
Points == Coords \X Coords
\* The {lat, lng} objects of the public interface.
Positions == [lat : Coords, lng : Coords]

Kinds == {"center", "radius"}

VARIABLES
    editable,           \* options.editable of each circle
    map,                \* this._map (NoMap: undefined or null)
    currentRadius,      \* this._currentRadius
    editRadius,         \* this._editRadius
    lastRadius,         \* this._lastRadius
    currentCenter,      \* this._currentCenterLngLat
    editCenter,         \* this._editCenterLngLat
    lastCenter,         \* this._lastCenterLngLat
    centerDragActive,   \* this._centerDragActive
    radiusDragActive,   \* this._radiusDragActive
    renderedQ,          \* one-time 'rendered' listeners of this._eventEmitter
    changedL,           \* number of registrations of _onCenterChanged/_onRadiusChanged
    registry,           \* __MONOSTATE.activeEditableCircles
    bcast,              \* __MONOSTATE.broadcast listeners, one entry per _bindBroadcastListeners
    loaded,             \* map._loaded
    styleLoaded,        \* map.isStyleLoaded()
    onLoad,             \* map.once('load', addCircleAssetsOnMap) callbacks
    onRender,           \* map.once('render', addCircleAssetsOnMap) callbacks
    onStyleData,        \* map.once('styledata', () => this.addTo(map)) callbacks
    assets,             \* circles whose sources and layers are on the map
    fillB,              \* registrations of the fill listener group, per map and circle
    centerB,            \* registrations of the center-handle listener group
    radiusB,            \* registrations of the radius-handles listener group
    styleL,             \* registrations of _onMapStyleDataLoading
    upL,                \* one-time 'mouseup' listeners of the map
    outL,               \* one-time 'mouseout' listeners of the map
    moveL,              \* debounced 'mousemove' listeners of the map (wrapper ids)
    wr,                 \* the debounce wrappers made by _mapOnDebounced
    slot,               \* this._debouncedHandlers[handler]: the circle's latest wrapper
    frames,             \* requestAnimationFrame callbacks not yet run
    timers,             \* pending 125 ms hover-reset timers (circle, handle kind)
    cursor,             \* map.getCanvas().style.cursor
    dragPan,            \* map.dragPan enabled
    instanceIds,        \* this.__instanceId of each circle (Undefined until first read)
    instanceIdCounter,  \* __MONOSTATE.instanceIdCounter
    safariHack,         \* this.__safariContextMenuEventHackEnabled
    userAgent,          \* window.navigator.userAgent: which of 'Chrome', 'Safari' it contains
    refineStroke,       \* options.refineStroke of each circle
    zoom,               \* this._zoom: <<>> when undefined, else <<tenths of a zoom level>>
    mapZoom,            \* map.getZoom(), in tenths of a zoom level
    steps,              \* the steps that the last _updateCircle of the circle computed
    circlePolygon,      \* this._circle: the center and radius its polygon was made from
    handlePoints,       \* this._handles: the center and radius the four points were made
                        \* from (<<>> while undefined)
    last,               \* the last operation: its name, circle, argument, error, events,
                        \* bus publications, and the suspend left open on the bus
    dragStart           \* history: what held when the circle's running drag began

vars == <<editable, map, currentRadius, editRadius, lastRadius, currentCenter,
          editCenter, lastCenter, centerDragActive, radiusDragActive, renderedQ,
          changedL, registry, bcast, loaded, styleLoaded, onLoad, onRender,
          onStyleData, assets,
          fillB, centerB, radiusB, styleL, upL, outL, moveL, wr, slot, frames,
          timers, cursor, dragPan, instanceIds, instanceIdCounter, safariHack,
          userAgent, refineStroke, zoom, mapZoom, steps, circlePolygon,
          handlePoints, last, dragStart>>

\* The program state as one record, with the running handler's error and events.
Cur ==
    [editable |-> editable, map |-> map, currentRadius |-> currentRadius,
     editRadius |-> editRadius, lastRadius |-> lastRadius,
     currentCenter |-> currentCenter, editCenter |-> editCenter,
     lastCenter |-> lastCenter, centerDragActive |-> centerDragActive,
     radiusDragActive |-> radiusDragActive, renderedQ |-> renderedQ,
     changedL |-> changedL, registry |-> registry, bcast |-> bcast,
     loaded |-> loaded, styleLoaded |-> styleLoaded, onLoad |-> onLoad,
     onRender |-> onRender, onStyleData |-> onStyleData, assets |-> assets, fillB |-> fillB,
     centerB |-> centerB, radiusB |-> radiusB, styleL |-> styleL, upL |-> upL,
     outL |-> outL, moveL |-> moveL, wr |-> wr, slot |-> slot,
     frames |-> frames, timers |-> timers, cursor |-> cursor,
     dragPan |-> dragPan, instanceIds |-> instanceIds,
     instanceIdCounter |-> instanceIdCounter, safariHack |-> safariHack,
     userAgent |-> userAgent, refineStroke |-> refineStroke, zoom |-> zoom,
     mapZoom |-> mapZoom, steps |-> steps, circlePolygon |-> circlePolygon,
     handlePoints |-> handlePoints, err |-> "none", ev |-> <<>>,
     pub |-> <<>>]

\* ---------------------------------------------------------------- helpers

Throw(s, e) == [s EXCEPT !.err = e]
Ok(s) == s.err = "none"

Max(a, b) == IF a >= b THEN a ELSE b
Min(a, b) == IF a <= b THEN a ELSE b

\* Math.round of a radius given in half metres (x.5 rounds up).
Round(h) == (h + 1) \div 2

\* The first index of x in q, 0 when x is not in q.
RECURSIVE IndexFrom(_, _, _)
IndexFrom(q, x, i) ==
    IF i > Len(q) THEN 0 ELSE IF q[i] = x THEN i ELSE IndexFrom(q, x, i + 1)
IndexOf(q, x) == IndexFrom(q, x, 1)

RemoveAt(q, i) == SubSeq(q, 1, i - 1) \o SubSeq(q, i + 1, Len(q))

\* EventEmitter.removeListener / map.off: drop the first registration, if any.
RemoveFirst(q, x) == IF IndexOf(q, x) = 0 THEN q ELSE RemoveAt(q, IndexOf(q, x))

Count(q, x) == Cardinality({i \in 1..Len(q) : q[i] = x})

Dec(n) == IF n > 0 THEN n - 1 ELSE 0
\* The last index of x in q, 0 when x is not in q.
RECURSIVE LastIndexFrom(_, _, _)
LastIndexFrom(q, x, i) ==
    IF i = 0 THEN 0 ELSE IF q[i] = x THEN i ELSE LastIndexFrom(q, x, i - 1)

\* EventEmitter.removeListener: drop the most recently added registration, if any.
RemoveLast(q, x) ==
    IF LastIndexFrom(q, x, Len(q)) = 0 THEN q ELSE RemoveAt(q, LastIndexFrom(q, x, Len(q)))

\* ------------------------------------------------- center and radius accessors

\* get center: the edit value while the center drag flag is set.
center(s, c) ==
    IF s.centerDragActive[c] THEN s.editCenter[c] ELSE s.currentCenter[c]

\* get radius: the edit value while the radius drag flag is set.
radius(s, c) ==
    IF s.radiusDragActive[c] THEN s.editRadius[c] ELSE s.currentRadius[c]

\* Math.min(Math.max(options.minRadius, newRadius), options.maxRadius)
ClampRadius(newRadius) == Min(Max(MinRadiusOpt, newRadius), MaxRadiusOpt)

\* The zoom _updateCircle uses, in tenths: 0.1 for an undefined zoom, a zoom of
\* 0 and any zoom up to 0.1.
effectiveZoom(z) == IF z = <<>> THEN 1 ELSE IF z[1] <= 1 THEN 1 ELSE z[1]

\* The largest n in lo..hi with n * n <= x.
RECURSIVE SqrtBetween(_, _, _)
SqrtBetween(x, lo, hi) ==
    IF lo >= hi THEN lo
    ELSE LET mid == (lo + hi + 1) \div 2
         IN  IF mid * mid <= x THEN SqrtBetween(x, mid, hi)
             ELSE SqrtBetween(x, lo, mid - 1)

\* n ^ 2 of JavaScript, the bitwise exclusive or with 2, for an integer n >= 0.
BitXor2(n) == IF (n \div 2) % 2 = 1 THEN n - 2 ELSE n + 2

\* The operand of ^ as an integer: Math.sqrt(Math.trunc(radius * 0.25)) * zoom
\* truncated, for a radius in whole metres and a zoom in tenths.
StrokeOperand(r, z) ==
    LET x == ((r \div 4) * effectiveZoom(z) * effectiveZoom(z)) \div 100
    IN  SqrtBetween(x, 0, Min(x, SqrtCap))

\* A step count without the lower limit of 64.
stepCountNoFloor(refine, r, z) ==
    IF refine THEN BitXor2(StrokeOperand(r, z)) ELSE 64

\* const steps of _updateCircle: * binds tighter than ^, so the product is
\* xor-ed with 2.
stepCount(refine, r, z) ==
    IF refine THEN Max(BitXor2(StrokeOperand(r, z)), 64) ELSE 64

\* turfCircle(center, radius, ...) and the four turfDestination(center, radius,
\* bearing) points, each named by the center and radius it is made from.
Shape(ctr, rad) == [center |-> ctr, radius |-> rad]

\* _updateCircle: the step count, the polygon unless a center drag is active
\* with a radius below 10000 m, and the handle points of an editable circle.
updateCircle(s, c) ==
    IF ~Ok(s) THEN s
    ELSE LET s1 == [s EXCEPT !.steps[c] =
                                 stepCount(s.refineStroke[c], radius(s, c), s.zoom[c])]
             s2 == IF ~(s.centerDragActive[c] /\ radius(s, c) < SkipPolygonBelow)
                   THEN [s1 EXCEPT !.circlePolygon[c] = Shape(center(s, c), radius(s, c))]
                   ELSE s1
         IN  IF s.editable[c]
             THEN [s2 EXCEPT !.handlePoints[c] = Shape(center(s, c), radius(s, c))]
             ELSE s2

\* _animate: setData on the sources of this._map; a TypeError when this._map is
\* null or a source it reads is not on the map.
animate(s, c) ==
    LET cda == s.centerDragActive[c]
        rda == s.radiusDragActive[c]
        reads == (~cda /\ ~rda) \/ (s.editable[c] /\ (~rda \/ ~cda))
    IN  IF ~Ok(s) \/ ~reads THEN s
        ELSE IF s.map[c] = NoMap THEN Throw(s, "TypeError")
        ELSE IF c \notin s.assets[s.map[c]] THEN Throw(s, "TypeError")
        ELSE s

\* A center setter that writes the committed center whatever the drag flag says.
setCenterPropCommitted(s, c, newCenter) ==
    animate(updateCircle([s EXCEPT !.currentCenter[c] = newCenter], c), c)

\* set center
setCenterProp(s, c, newCenter) ==
    animate(updateCircle(IF s.centerDragActive[c]
                         THEN [s EXCEPT !.editCenter[c] = newCenter]
                         ELSE [s EXCEPT !.currentCenter[c] = newCenter], c), c)

\* A radius setter that clamps to the lower limit only.
setRadiusPropNoMax(s, c, newRadius) ==
    animate(updateCircle(IF s.radiusDragActive[c]
                         THEN [s EXCEPT !.editRadius[c] = Max(MinRadiusOpt, newRadius)]
                         ELSE [s EXCEPT !.currentRadius[c] = Max(MinRadiusOpt, newRadius)],
                         c), c)

\* set radius
setRadiusProp(s, c, newRadius) ==
    animate(updateCircle(IF s.radiusDragActive[c]
                         THEN [s EXCEPT !.editRadius[c] = ClampRadius(newRadius)]
                         ELSE [s EXCEPT !.currentRadius[c] = ClampRadius(newRadius)],
                         c), c)

\* set zoom
setZoomProp(s, c, newZoom) ==
    IF ~Ok(s) THEN s
    ELSE LET s1 == [s EXCEPT !.zoom[c] = <<newZoom>>]
         IN  IF s.refineStroke[c] THEN animate(updateCircle(s1, c), c) ELSE s1

\* _onZoomEnd
onZoomEnd(s, c) ==
    IF ~Ok(s) THEN s
    ELSE IF s.map[c] = NoMap THEN Throw(s, "TypeError")
    ELSE setZoomProp(s, c, s.mapZoom[s.map[c]])

\* _onCenterChanged
onCenterChanged(s, c) == [s EXCEPT !.lastCenter[c] = center(s, c)]

\* _onRadiusChanged
onRadiusChanged(s, c) == [s EXCEPT !.lastRadius[c] = radius(s, c)]

\* this._eventEmitter.emit('centerchanged', this): the registered _onCenterChanged
\* listeners, then the event as the caller's listeners see it.
emitCenterChanged(s, c) ==
    LET s1 == IF s.changedL[c] > 0 THEN onCenterChanged(s, c) ELSE s
    IN  [s1 EXCEPT !.ev = Append(@, <<c, "centerchanged">>)]

\* this._eventEmitter.emit('radiuschanged', this)
emitRadiusChanged(s, c) ==
    LET s1 == IF s.changedL[c] > 0 THEN onRadiusChanged(s, c) ELSE s
    IN  [s1 EXCEPT !.ev = Append(@, <<c, "radiuschanged">>)]

\* ------------------------------------------------------- static listener groups

\* map.on of one listener group; m is the map argument, or this.map when absent.
bindCenterHandleListeners(s, c, m) ==
    IF ~Ok(s) THEN s
    ELSE IF m = NoMap THEN Throw(s, "TypeError")
    ELSE [s EXCEPT !.centerB[m][c] = @ + 1]

unbindCenterHandleListeners(s, c, m) ==
    IF ~Ok(s) THEN s
    ELSE IF m = NoMap THEN Throw(s, "TypeError")
    ELSE [s EXCEPT !.centerB[m][c] = Dec(@)]

bindRadiusHandlesListeners(s, c, m) ==
    IF ~Ok(s) THEN s
    ELSE IF m = NoMap THEN Throw(s, "TypeError")
    ELSE [s EXCEPT !.radiusB[m][c] = @ + 1]

unbindRadiusHandlesListeners(s, c, m) ==
    IF ~Ok(s) THEN s
    ELSE IF m = NoMap THEN Throw(s, "TypeError")
    ELSE [s EXCEPT !.radiusB[m][c] = Dec(@)]

bindCircleFillListeners(s, c, m) ==
    IF ~Ok(s) THEN s
    ELSE IF m = NoMap THEN Throw(s, "TypeError")
    ELSE [s EXCEPT !.fillB[m][c] = @ + 1]

unbindCircleFillListeners(s, c, m) ==
    IF ~Ok(s) THEN s
    ELSE IF m = NoMap THEN Throw(s, "TypeError")
    ELSE [s EXCEPT !.fillB[m][c] = Dec(@)]

\* --------------------------------------------------------- suspend and resume

\* The six broadcast listeners of circle b, called with (instanceId, typeOfHandle);
\* the instance id of a circle is the circle.
onCenterHandleSuspendEvents(s, b, instanceId, typeOfHandle) ==
    IF instanceId # b \/ typeOfHandle = "radius"
    THEN unbindCenterHandleListeners(s, b, s.map[b]) ELSE s

onCenterHandleResumeEvents(s, b, instanceId, typeOfHandle) ==
    IF instanceId # b \/ typeOfHandle = "radius"
    THEN bindCenterHandleListeners(s, b, s.map[b]) ELSE s

onRadiusHandlesSuspendEvents(s, b, instanceId, typeOfHandle) ==
    IF instanceId # b \/ typeOfHandle = "center"
    THEN unbindRadiusHandlesListeners(s, b, s.map[b]) ELSE s

onRadiusHandlesResumeEvents(s, b, instanceId, typeOfHandle) ==
    IF instanceId # b \/ typeOfHandle = "center"
    THEN bindRadiusHandlesListeners(s, b, s.map[b]) ELSE s

onCircleFillSuspendEvents(s, b) == unbindCircleFillListeners(s, b, s.map[b])

onCircleFillResumeEvents(s, b) == bindCircleFillListeners(s, b, s.map[b])

BroadcastListener(s, b, event, instanceId, typeOfHandle) ==
    CASE event = "suspendCenterHandleListeners" ->
            onCenterHandleSuspendEvents(s, b, instanceId, typeOfHandle)
      [] event = "suspendRadiusHandlesListeners" ->
            onRadiusHandlesSuspendEvents(s, b, instanceId, typeOfHandle)
      [] event = "suspendCircleFillListeners" -> onCircleFillSuspendEvents(s, b)
      [] event = "resumeCenterHandleListeners" ->
            onCenterHandleResumeEvents(s, b, instanceId, typeOfHandle)
      [] event = "resumeRadiusHandlesListeners" ->
            onRadiusHandlesResumeEvents(s, b, instanceId, typeOfHandle)
      [] event = "resumeCircleFillListeners" -> onCircleFillResumeEvents(s, b)

\* __MONOSTATE.broadcast.emit(event, instanceId, typeOfHandle): the listeners q
\* registered when the event is emitted, in order; an exception ends the emit.
RECURSIVE broadcastEmit(_, _, _, _, _)
broadcastEmit(s, q, event, instanceId, typeOfHandle) ==
    IF q = <<>> \/ ~Ok(s) THEN s
    ELSE broadcastEmit(BroadcastListener(s, Head(q), event, instanceId, typeOfHandle),
                       Tail(q), event, instanceId, typeOfHandle)

\* _suspendHandleListeners
suspendHandleListeners(s0, c, typeOfHandle) ==
    LET s  == IF Ok(s0) THEN [s0 EXCEPT !.pub = Append(@, <<"suspend", c, typeOfHandle>>)]
              ELSE s0
        s1 == broadcastEmit(s, s.bcast, "suspendCenterHandleListeners", c, typeOfHandle)
        s2 == broadcastEmit(s1, s1.bcast, "suspendRadiusHandlesListeners", c, typeOfHandle)
    IN  broadcastEmit(s2, s2.bcast, "suspendCircleFillListeners", c, typeOfHandle)

\* _resumeHandleListeners
resumeHandleListeners(s0, c, typeOfHandle) ==
    LET s  == IF Ok(s0) THEN [s0 EXCEPT !.pub = Append(@, <<"resume", c, typeOfHandle>>)]
              ELSE s0
        s1 == broadcastEmit(s, s.bcast, "resumeCenterHandleListeners", c, typeOfHandle)
        s2 == broadcastEmit(s1, s1.bcast, "resumeRadiusHandlesListeners", c, typeOfHandle)
    IN  broadcastEmit(s2, s2.bcast, "resumeCircleFillListeners", c, typeOfHandle)
\* ------------------------------------------------------------ debounced moves

Wrappers == 1..MaxWrappers
FreeWrapper == [c |-> 0, kind |-> "center", ticking |-> FALSE]
IsFree(s, w) == s.wr[w].c = 0

\* A wrapper is referenced while it is registered on a map or has a frame pending.
Referenced(s, w) ==
    \/ \E m \in Maps : IndexOf(s.moveL[m], w) # 0
    \/ \E i \in 1..Len(s.frames) : s.frames[i].w = w

\* Wrappers that nothing can call any more are forgotten (the slot of a circle may
\* still name one: map.off of it is then a no-op, as it is for an empty slot).
Gc(s) ==
    [s EXCEPT !.wr = [w \in Wrappers |-> IF Referenced(s, w) THEN s.wr[w] ELSE FreeWrapper],
              !.slot = [c \in Circles |->
                            IF s.slot[c] # 0 /\ Referenced(s, s.slot[c]) THEN s.slot[c] ELSE 0]]

\* _mapOnDebounced: a new wrapper with ticking = false replaces the circle's entry
\* of _debouncedHandlers (every bound handler converts to the same property key)
\* and is registered on this.map.  "cap" marks a run the model's bound cuts off.
mapOnDebounced(s, c, kind) ==
    IF ~Ok(s) THEN s
    ELSE IF \A w \in Wrappers : ~IsFree(s, w) THEN Throw(s, "cap")
    ELSE LET w == CHOOSE x \in Wrappers : IsFree(s, x) /\ \A y \in Wrappers : IsFree(s, y) => x <= y
             s1 == [s EXCEPT !.wr[w] = [c |-> c, kind |-> kind, ticking |-> FALSE],
                             !.slot[c] = w]
         IN  IF s.map[c] = NoMap THEN Throw(s1, "TypeError")
             ELSE [s1 EXCEPT !.moveL[s.map[c]] = Append(@, w)]

\* _mapOffDebounced: this.map.off(event, this._debouncedHandlers[handler])
mapOffDebounced(s, c) ==
    IF ~Ok(s) THEN s
    ELSE IF s.map[c] = NoMap THEN Throw(s, "TypeError")
    ELSE [s EXCEPT !.moveL[s.map[c]] = RemoveFirst(@, s.slot[c])]

\* ------------------------------------------------------------ handle feedback

\* _highlightHandles
highlightHandles(s, c, cursorStyle) ==
    IF ~Ok(s) THEN s
    ELSE IF s.map[c] = NoMap THEN Throw(s, "TypeError")
    ELSE [s EXCEPT !.dragPan[s.map[c]] = FALSE, !.cursor[s.map[c]] = cursorStyle]

\* _resetHandles
resetHandles(s, c) ==
    IF ~Ok(s) THEN s
    ELSE IF s.map[c] = NoMap THEN Throw(s, "TypeError")
    ELSE [s EXCEPT !.dragPan[s.map[c]] = TRUE, !.cursor[s.map[c]] = ""]

\* _getCursorStyle().endsWith('-resize')
IsResize(cursorStyle) == cursorStyle \in {"ns-resize", "ew-resize"}

\* _onCenterHandleMouseEnter
onCenterHandleMouseEnter(s, c) == highlightHandles(s, c, "move")

\* _onRadiusHandlesMouseEnter; resize is _getRadiusHandleCursorStyle(event)
onRadiusHandlesMouseEnter(s, c, resize) == highlightHandles(s, c, resize)

\* _onCenterHandleMouseLeave
onCenterHandleMouseLeave(s, c) ==
    IF ~Ok(s) THEN s
    ELSE IF s.centerDragActive[c] THEN [s EXCEPT !.timers = @ \cup {<<c, "center">>}]
    ELSE resetHandles(s, c)

\* _onRadiusHandlesMouseLeave
onRadiusHandlesMouseLeave(s, c) ==
    IF ~Ok(s) THEN s
    ELSE IF s.radiusDragActive[c] THEN [s EXCEPT !.timers = @ \cup {<<c, "radius">>}]
    ELSE resetHandles(s, c)

\* The setTimeout callbacks of the two mouse-leave handlers.
onLeaveTimeout(s, c, kind) ==
    IF kind = "center"
    THEN (IF ~s.centerDragActive[c] THEN resetHandles(s, c) ELSE s)
    ELSE (IF ~s.radiusDragActive[c] THEN resetHandles(s, c) ELSE s)
\* --------------------------------------------------------------- center drag

\* _onCenterHandleMouseDown without its test of the canvas cursor
onCenterHandleMouseDownAnyCursor(s, c) ==
    IF ~Ok(s) THEN s
    ELSE IF s.map[c] = NoMap THEN Throw(s, "TypeError")
    ELSE LET m  == s.map[c]
             s1 == [s EXCEPT !.centerDragActive[c] = TRUE]
             s2 == mapOnDebounced(s1, c, "center")
             s3 == suspendHandleListeners(s2, c, "center")
             s4 == IF Ok(s3)
                   THEN [s3 EXCEPT !.upL[m] = Append(@, <<c, "center">>),
                                   !.outL[m] = Append(@, <<c, "center">>)]
                   ELSE s3
         IN  highlightHandles(s4, c, "move")

\* _onCenterHandleMouseDown
onCenterHandleMouseDown(s, c) ==
    IF ~Ok(s) THEN s
    ELSE IF s.map[c] = NoMap THEN Throw(s, "TypeError")
    ELSE IF s.cursor[s.map[c]] # "move" THEN s
    ELSE LET m  == s.map[c]
             s1 == [s EXCEPT !.centerDragActive[c] = TRUE]
             s2 == mapOnDebounced(s1, c, "center")
             s3 == suspendHandleListeners(s2, c, "center")
             s4 == IF Ok(s3)
                   THEN [s3 EXCEPT !.upL[m] = Append(@, <<c, "center">>),
                                   !.outL[m] = Append(@, <<c, "center">>)]
                   ELSE s3
         IN  highlightHandles(s4, c, "move")

\* _onCenterHandleMouseMove; p is the truncated pointer position
onCenterHandleMouseMove(s, c, p) ==
    IF ~Ok(s) THEN s
    ELSE IF s.map[c] = NoMap THEN Throw(s, "TypeError")
    ELSE setCenterProp(s, c, p)

\* _onCenterHandleMouseUpOrMapMouseOut; type is event.type and crossing says
\* whether a 'mouseout' goes from the canvas to a marker or from a marker to the canvas
onCenterHandleMouseUpOrMapMouseOut(s, c, type, crossing) ==
    IF ~Ok(s) THEN s
    ELSE IF type = "mouseout" /\ crossing
    THEN (IF s.map[c] = NoMap THEN Throw(s, "TypeError")
          ELSE [s EXCEPT !.outL[s.map[c]] = Append(@, <<c, "center">>)])
    ELSE LET newCenter == center(s, c)
             s1 == [s EXCEPT !.centerDragActive[c] = FALSE]
             s2 == mapOffDebounced(s1, c)
             s3 == IF ~Ok(s2) THEN s2
                   ELSE IF type = "mouseup"
                   THEN [s2 EXCEPT !.outL[s.map[c]] = RemoveFirst(@, <<c, "center">>)]
                   ELSE [s2 EXCEPT !.upL[s.map[c]] = RemoveFirst(@, <<c, "center">>)]
             s4 == resumeHandleListeners(s3, c, "center")
             s5 == resetHandles(s4, c)
         IN  IF ~Ok(s5) THEN s5
             ELSE IF newCenter[1] # s5.lastCenter[c][1] \/ newCenter[2] # s5.lastCenter[c][2]
             THEN LET s6 == setCenterProp(s5, c, newCenter)
                  IN  IF Ok(s6) THEN emitCenterChanged(s6, c) ELSE s6
             ELSE s5

\* --------------------------------------------------------------- radius drag

\* _onRadiusHandlesMouseDown; resize is _getRadiusHandleCursorStyle(event)
onRadiusHandlesMouseDown(s, c, resize) ==
    IF ~Ok(s) THEN s
    ELSE IF s.map[c] = NoMap THEN Throw(s, "TypeError")
    ELSE IF ~IsResize(s.cursor[s.map[c]]) THEN s
    ELSE LET m  == s.map[c]
             s1 == [s EXCEPT !.radiusDragActive[c] = TRUE]
             s2 == mapOnDebounced(s1, c, "radius")
             s3 == suspendHandleListeners(s2, c, "radius")
             s4 == IF Ok(s3)
                   THEN [s3 EXCEPT !.upL[m] = Append(@, <<c, "radius">>),
                                   !.outL[m] = Append(@, <<c, "radius">>)]
                   ELSE s3
         IN  highlightHandles(s4, c, resize)

\* _onRadiusHandlesMouseMove; h is turfDistance(this.center, mousePoint) in half metres
onRadiusHandlesMouseMove(s, c, h) ==
    IF ~Ok(s) THEN s
    ELSE IF s.map[c] = NoMap THEN Throw(s, "TypeError")
    ELSE setRadiusProp(s, c, Round(h))

\* _onRadiusHandlesMouseUpOrMapMouseOut
onRadiusHandlesMouseUpOrMapMouseOut(s, c, type, crossing) ==
    IF ~Ok(s) THEN s
    ELSE IF type = "mouseout" /\ crossing
    THEN (IF s.map[c] = NoMap THEN Throw(s, "TypeError")
          ELSE [s EXCEPT !.outL[s.map[c]] = Append(@, <<c, "radius">>)])
    ELSE LET newRadius == radius(s, c)
             s1 == [s EXCEPT !.radiusDragActive[c] = FALSE]
             s2 == mapOffDebounced(s1, c)
             s3 == IF ~Ok(s2) THEN s2
                   ELSE IF type = "mouseup"
                   THEN [s2 EXCEPT !.outL[s.map[c]] = RemoveFirst(@, <<c, "radius">>)]
                   ELSE [s2 EXCEPT !.upL[s.map[c]] = RemoveFirst(@, <<c, "radius">>)]
             s4 == resumeHandleListeners(s3, c, "radius")
             s5 == resetHandles(s4, c)
         IN  IF ~Ok(s5) THEN s5
             ELSE IF newRadius # s5.lastRadius[c]
             THEN LET s6 == setRadiusProp(s5, c, newRadius)
                  IN  IF Ok(s6) THEN emitRadiusChanged(s6, c) ELSE s6
             ELSE s5
\* ------------------------------------------------------------------ public API

\* applyUpdate of setCenter
applyCenterUpdate(s, c, position) ==
    LET s1 == setCenterProp(s, c, <<position.lng, position.lat>>)
    IN  IF ~Ok(s1) THEN s1
        ELSE IF center(s1, c)[1] # s1.lastCenter[c][1] /\ center(s1, c)[2] # s1.lastCenter[c][2]
        THEN emitCenterChanged(s1, c)
        ELSE s1

\* applyUpdate of setRadius
applyRadiusUpdate(s, c, newRadius) ==
    LET s1 == setRadiusProp(s, c, newRadius)
    IN  IF ~Ok(s1) THEN s1
        ELSE IF s1.lastRadius[c] # newRadius /\ radius(s1, c) = newRadius
        THEN emitRadiusChanged(s1, c)
        ELSE s1

Update(kind, r, p) == [kind |-> kind, r |-> r, p |-> p]

applyUpdate(s, c, u) ==
    IF u.kind = "radius" THEN applyRadiusUpdate(s, c, u.r) ELSE applyCenterUpdate(s, c, u.p)

\* setCenter
setCenter(s, c, position) ==
    IF s.map[c] # NoMap THEN applyCenterUpdate(s, c, position)
    ELSE [s EXCEPT !.renderedQ[c] = Append(@, Update("center", 0, position))]

\* setRadius; h is the argument in half metres
setRadius(s, c, h) ==
    IF s.map[c] # NoMap THEN applyRadiusUpdate(s, c, Round(h))
    ELSE [s EXCEPT !.renderedQ[c] = Append(@, Update("radius", Round(h), [lat |-> 0, lng |-> 0]))]

\* getCenter, getRadius
getCenter(s, c) == [lat |-> center(s, c)[2], lng |-> center(s, c)[1]]
getRadius(s, c) == radius(s, c)

\* An emit of 'rendered' whose listeners stay registered after they are called.
RECURSIVE emitRenderedKept(_, _, _)
emitRenderedKept(s, c, q) ==
    IF q = <<>> \/ ~Ok(s) THEN s
    ELSE emitRenderedKept(applyUpdate(s, c, Head(q)), c, Tail(q))

\* this._eventEmitter.emit('rendered', this): the one-time listeners q registered
\* when the event is emitted, each removed just before it is called.
RECURSIVE emitRendered(_, _, _)
emitRendered(s, c, q) ==
    IF q = <<>> \/ ~Ok(s) THEN s
    ELSE emitRendered(applyUpdate([s EXCEPT !.renderedQ[c] = Tail(@)], c, Head(q)), c, Tail(q))

\* _addActiveEditableCircle
addActiveEditableCircle(s, c) == [s EXCEPT !.registry = Append(@, c)]

\* _removeActiveEditableCircle: splice(indexOf(circle), 1); an index of -1 takes
\* the last element.
removeActiveEditableCircle(s, c) ==
    IF s.registry = <<>> THEN s
    ELSE IF IndexOf(s.registry, c) = 0
    THEN [s EXCEPT !.registry = SubSeq(@, 1, Len(@) - 1)]
    ELSE [s EXCEPT !.registry = RemoveAt(@, IndexOf(@, c))]

\* set map
setMapProp(s, c, m) ==
    IF ~Ok(s) THEN s
    ELSE IF s.map[c] = NoMap \/ m = NoMap THEN [s EXCEPT !.map[c] = m]
    ELSE Throw(s, "TypeError")

\* An id getter that hands out the counter's value without advancing it.
instanceIdOfSameCounter(s, c) ==
    IF s.instanceIds[c] = Undefined
    THEN [s EXCEPT !.instanceIds[c] = s.instanceIdCounter]
    ELSE s

\* get _instanceId: the first read takes the counter's value and advances it.
instanceIdOf(s, c) ==
    IF s.instanceIds[c] = Undefined
    THEN [s EXCEPT !.instanceIds[c] = s.instanceIdCounter,
                   !.instanceIdCounter = @ + 1]
    ELSE s

\* addCircleAssetsOnMap: the source id is read first (this._circleSourceId).
addCircleAssetsOnMap(s0, c, m) ==
    IF ~Ok(s0) THEN s0
    ELSE LET s == instanceIdOf(s0, c) IN
    IF c \in s.assets[m] THEN Throw(s, "Error")
    ELSE LET s1 == bindCircleFillListeners([s EXCEPT !.assets[m] = @ \cup {c}], c, m)
             s2 == IF s.editable[c]
                   THEN LET e1 == bindRadiusHandlesListeners(
                                      bindCenterHandleListeners(s1, c, m), c, m)
                            e2 == [e1 EXCEPT !.changedL[c] = @ + 1]
                            e3 == addActiveEditableCircle(e2, c)
                        IN  [e3 EXCEPT !.bcast = Append(@, c)]
                   ELSE s1
             s3 == [s2 EXCEPT !.styleL[m][c] = @ + 1]
             s4 == setMapProp(s3, c, m)
             s5 == setZoomProp(s4, c, s.mapZoom[m])
         IN  emitRendered(s5, c, s5.renderedQ[c])

\* An addTo that attaches at once or on 'load', and forgets the circle when the
\* map is loaded but its style is not.
addToUnlessStyleLoading(s, c, m) ==
    IF s.loaded[m]
    THEN (IF s.styleLoaded[m] THEN addCircleAssetsOnMap(s, c, m) ELSE s)
    ELSE [s EXCEPT !.onLoad[m] = Append(@, c)]

\* addTo
addTo(s, c, m) ==
    IF s.loaded[m]
    THEN (IF s.styleLoaded[m] THEN addCircleAssetsOnMap(s, c, m)
          ELSE [s EXCEPT !.onRender[m] = Append(@, c)])
    ELSE [s EXCEPT !.onLoad[m] = Append(@, c)]

\* remove
remove(s, c) ==
    IF s.map[c] = NoMap THEN Throw(s, "TypeError")
    ELSE LET m  == s.map[c]
             s1 == [s EXCEPT !.styleL[m][c] = Dec(@)]
             s2 == IF s.editable[c]
                   THEN LET e1 == [s1 EXCEPT !.bcast = RemoveLast(@, c)]
                            e2 == removeActiveEditableCircle(e1, c)
                            e3 == [e2 EXCEPT !.changedL[c] = Dec(@)]
                        IN  unbindCenterHandleListeners(
                                unbindRadiusHandlesListeners(e3, c, m), c, m)
                   ELSE s1
             s3 == unbindCircleFillListeners(s2, c, m)
             s4 == [s3 EXCEPT !.assets[m] = @ \ {c}]
         IN  setMapProp(s4, c, NoMap)

\* _onMapStyleDataLoading; m is event.target
onMapStyleDataLoading(s, c, m) ==
    IF ~Ok(s) THEN s
    ELSE IF s.map[c] # NoMap
    THEN remove([s EXCEPT !.onStyleData[s.map[c]] = Append(@, <<c, m>>)], c)
    ELSE s
\* ------------------------------------------------------------ fill events

\* _checkIfBrowserIsSafari
checkIfBrowserIsSafari(s) == ~s.userAgent.chrome /\ s.userAgent.safari

\* A pointer position on map point.m: point.handles are the circles whose handle
\* layers have a feature there.  map.queryRenderedFeatures(point, {layers: the
\* two handle layers of d}) on map n finds a feature iff d's handle layers are
\* on n and d is one of point.handles; layers that n does not have yield none.
queryRenderedFeatures(s, n, point, d) ==
    s.editable[d] /\ d \in s.assets[n] /\ d \in point.handles

\* A _pointOnHandle that looks at the circle's own handles only.
pointOnOwnHandle(s, c, point) ==
    queryRenderedFeatures(s, s.map[c], point, c)

\* _pointOnHandle: some registered circle has a handle at the point.
pointOnHandle(s, c, point) ==
    ~ \A i \in 1..Len(s.registry) :
          ~queryRenderedFeatures(s, s.map[c], point, s.registry[i])

\* _pointOnHandle reads this.map for the first registered circle.
pointOnHandleThrows(s, c) == s.registry # <<>> /\ s.map[c] = NoMap

emitFill(s, c, type) == [s EXCEPT !.ev = Append(@, <<c, type>>)]

\* _onCircleFillContextMenu
onCircleFillContextMenu(s, c, event) ==
    IF ~Ok(s) THEN s
    ELSE IF pointOnHandleThrows(s, c) THEN Throw(s, "TypeError")
    ELSE IF pointOnHandle(s, c, event.point) THEN s
    ELSE IF event.ctrlKey /\ checkIfBrowserIsSafari(s)
    THEN [s EXCEPT !.safariHack[c] = TRUE]
    ELSE emitFill(s, c, "contextmenu")

\* A _onCircleFillClick that leaves the Safari flag as it is.
onCircleFillClickKeepsHack(s, c, event) ==
    IF ~Ok(s) THEN s
    ELSE IF pointOnHandleThrows(s, c) THEN Throw(s, "TypeError")
    ELSE IF pointOnHandle(s, c, event.point) THEN s
    ELSE IF ~s.safariHack[c] THEN emitFill(s, c, "click")
    ELSE emitFill(s, c, "contextmenu")

\* _onCircleFillClick
onCircleFillClick(s, c, event) ==
    IF ~Ok(s) THEN s
    ELSE IF pointOnHandleThrows(s, c) THEN Throw(s, "TypeError")
    ELSE IF pointOnHandle(s, c, event.point) THEN s
    ELSE IF ~s.safariHack[c] THEN emitFill(s, c, "click")
    ELSE [emitFill(s, c, "contextmenu") EXCEPT !.safariHack[c] = FALSE]

\* ------------------------------------------------------------ host map events

\* A listener of the map that belongs to circle c, by the handler it calls.
MapListener(s, c, handler, arg) ==
    CASE handler = "_onCenterHandleMouseEnter" -> onCenterHandleMouseEnter(s, c)
      [] handler = "_onCenterHandleMouseDown" -> onCenterHandleMouseDown(s, c)
      [] handler = "_onCenterHandleMouseLeave" -> onCenterHandleMouseLeave(s, c)
      [] handler = "_onRadiusHandlesMouseEnter" -> onRadiusHandlesMouseEnter(s, c, arg)
      [] handler = "_onRadiusHandlesMouseDown" -> onRadiusHandlesMouseDown(s, c, arg)
      [] handler = "_onRadiusHandlesMouseLeave" -> onRadiusHandlesMouseLeave(s, c)
      [] handler = "_onMapStyleDataLoading" -> onMapStyleDataLoading(s, c, arg)
      [] handler = "_onCircleFillContextMenu" -> onCircleFillContextMenu(s, c, arg)
      [] handler = "_onCircleFillClick" -> onCircleFillClick(s, c, arg)
      [] handler = "_onZoomEnd" -> onZoomEnd(s, c)

\* A listener called once for each of its n registrations; an exception ends the event.
RECURSIVE Times(_, _, _, _, _)
Times(n, s, c, handler, arg) ==
    IF n = 0 \/ ~Ok(s) THEN s
    ELSE Times(n - 1, MapListener(s, c, handler, arg), c, handler, arg)

\* The one-time 'mouseup' / 'mouseout' listeners q registered on map m when the
\* event fires: each is removed from the map's list, then called.
EndListener(s, e, type, crossing) ==
    IF e[2] = "center"
    THEN onCenterHandleMouseUpOrMapMouseOut(s, e[1], type, crossing)
    ELSE onRadiusHandlesMouseUpOrMapMouseOut(s, e[1], type, crossing)

RECURSIVE fireEnd(_, _, _, _, _)
fireEnd(s, m, q, type, crossing) ==
    IF q = <<>> \/ ~Ok(s) THEN s
    ELSE LET s1 == IF type = "mouseup"
                   THEN [s EXCEPT !.upL[m] = RemoveFirst(@, Head(q))]
                   ELSE [s EXCEPT !.outL[m] = RemoveFirst(@, Head(q))]
         IN  fireEnd(EndListener(s1, Head(q), type, crossing), m, Tail(q), type, crossing)

\* The debounce wrappers q registered on map m receive a 'mousemove': a wrapper
\* that is not ticking requests an animation frame; every wrapper is ticking after.
RECURSIVE fireMove(_, _, _, _)
fireMove(s, q, p, h) ==
    IF q = <<>> THEN s
    ELSE LET w  == Head(q)
             s1 == IF s.wr[w].ticking THEN s
                   ELSE [s EXCEPT !.frames = Append(@, [w |-> w, p |-> p, h |-> h]),
                                  !.wr[w].ticking = TRUE]
         IN  fireMove(s1, Tail(q), p, h)

\* One requestAnimationFrame callback: handler(args), then ticking = false.  An
\* exception ends this callback only; err keeps the first one.
frameCallback(s, f) ==
    LET w  == f.w
        s0 == [s EXCEPT !.err = "none"]
        s1 == IF s.wr[w].kind = "center"
              THEN onCenterHandleMouseMove(s0, s.wr[w].c, f.p)
              ELSE onRadiusHandlesMouseMove(s0, s.wr[w].c, f.h)
        s2 == IF Ok(s1) THEN [s1 EXCEPT !.wr[w].ticking = FALSE] ELSE s1
    IN  IF Ok(s) THEN s2 ELSE [s2 EXCEPT !.err = s.err]

RECURSIVE runFrames(_, _)
runFrames(s, q) ==
    IF q = <<>> THEN s ELSE runFrames(frameCallback(s, Head(q)), Tail(q))

\* The one-time 'load' / 'render' listeners q of map m: addCircleAssetsOnMap.
RECURSIVE fireAdd(_, _, _, _)
fireAdd(s, m, q, event) ==
    IF q = <<>> \/ ~Ok(s) THEN s
    ELSE LET s1 == IF event = "load"
                   THEN [s EXCEPT !.onLoad[m] = RemoveFirst(@, Head(q))]
                   ELSE [s EXCEPT !.onRender[m] = RemoveFirst(@, Head(q))]
         IN  fireAdd(addCircleAssetsOnMap(s1, Head(q), m), m, Tail(q), event)

\* The one-time 'styledata' listeners q of map m: this.addTo(event.target).
RECURSIVE fireStyleData(_, _, _)
fireStyleData(s, m, q) ==
    IF q = <<>> \/ ~Ok(s) THEN s
    ELSE fireStyleData(addTo([s EXCEPT !.onStyleData[m] = RemoveFirst(@, Head(q))],
                             Head(q)[1], Head(q)[2]), m, Tail(q))

\* The 'styledataloading' listeners of map m, for the circles cs in turn.
RECURSIVE fireStyleDataLoading(_, _, _)
fireStyleDataLoading(s, m, cs) ==
    IF cs = {} \/ ~Ok(s) THEN s
    ELSE LET c == CHOOSE x \in cs : \A y \in cs : x <= y
         IN  fireStyleDataLoading(Times(s.styleL[m][c], s, c, "_onMapStyleDataLoading", m),
                                  m, cs \ {c})

\* The 'zoomend' listeners of map m, for the circles cs in turn; _onZoomEnd is
\* registered and removed together with _onMapStyleDataLoading.
RECURSIVE fireZoomEnd(_, _, _)
fireZoomEnd(s, m, cs) ==
    IF cs = {} \/ ~Ok(s) THEN s
    ELSE LET c == CHOOSE x \in cs : \A y \in cs : x <= y
         IN  fireZoomEnd(Times(s.styleL[m][c], s, c, "_onZoomEnd", m), m, cs \ {c})

\* ------------------------------------------------------------------- actions

\* The bounds of the model: no listener list, registry or queue beyond its cap.
WithinBounds(s) ==
    /\ \A m \in Maps, c \in Circles :
          /\ s.fillB[m][c] <= MaxBind /\ s.centerB[m][c] <= MaxBind
          /\ s.radiusB[m][c] <= MaxBind /\ s.styleL[m][c] <= MaxBind
          /\ Count(s.onLoad[m], c) <= 1 /\ Count(s.onRender[m], c) <= 1
          /\ \A k \in Kinds : /\ Count(s.upL[m], <<c, k>>) <= MaxBind
                              /\ Count(s.outL[m], <<c, k>>) <= MaxBind
    /\ \A m \in Maps : Len(s.onStyleData[m]) <= MaxBind
    /\ \A c \in Circles :
          /\ s.changedL[c] <= MaxBind
          /\ Count(s.registry, c) <= MaxBind /\ Count(s.bcast, c) <= MaxBind
          /\ Len(s.renderedQ[c]) <= MaxQueue

\* History of a drag (not program state): for a circle with a drag flag set, the
\* committed radius and center, the registry, every circle's listener
\* registrations and the animation-frame callbacks pending at the moment its
\* first flag was set, and whether no radius or center has been written since
\* (quiet).
NoDrag == [on |-> FALSE]
Dragging(s, c) == s.centerDragActive[c] \/ s.radiusDragActive[c]
NextDragStart(s, c, op) ==
    IF ~Dragging(s, c) THEN NoDrag
    ELSE IF ~(centerDragActive[c] \/ radiusDragActive[c])
    THEN [on |-> TRUE, radius |-> currentRadius[c], center |-> currentCenter[c],
          registry |-> registry, centerB |-> centerB, radiusB |-> radiusB,
          fillB |-> fillB, frames |-> frames, quiet |-> TRUE]
    ELSE [dragStart[c] EXCEPT !.quiet = @ /\ op \notin {"frame", "setRadius", "setCenter"}]

\* The suspend left without a resume on the broadcast bus (<<>> if none) after the
\* publications q, when open was left before them.
RECURSIVE OpenAfter(_, _)
OpenAfter(open, q) ==
    IF q = <<>> THEN open
    ELSE OpenAfter(IF Head(q)[1] = "suspend" THEN <<Head(q)[2], Head(q)[3]>> ELSE <<>>,
                   Tail(q))

\* The step of an operation op (on circle c, with argument arg) that leaves state s.
Commit(s0, op, c, arg) ==
    \E t \in {s0} :
    /\ t.err # "cap"
    /\ WithinBounds(t)
    /\ \E s \in {Gc(t)} :
           /\ editable' = s.editable
           /\ map' = s.map
           /\ currentRadius' = s.currentRadius
           /\ editRadius' = s.editRadius
           /\ lastRadius' = s.lastRadius
           /\ currentCenter' = s.currentCenter
           /\ editCenter' = s.editCenter
           /\ lastCenter' = s.lastCenter
           /\ centerDragActive' = s.centerDragActive
           /\ radiusDragActive' = s.radiusDragActive
           /\ renderedQ' = s.renderedQ
           /\ changedL' = s.changedL
           /\ registry' = s.registry
           /\ bcast' = s.bcast
           /\ loaded' = s.loaded
           /\ styleLoaded' = s.styleLoaded
           /\ onLoad' = s.onLoad
           /\ onRender' = s.onRender
           /\ onStyleData' = s.onStyleData
           /\ assets' = s.assets
           /\ fillB' = s.fillB
           /\ centerB' = s.centerB
           /\ radiusB' = s.radiusB
           /\ styleL' = s.styleL
           /\ upL' = s.upL
           /\ outL' = s.outL
           /\ moveL' = s.moveL
           /\ wr' = s.wr
           /\ slot' = s.slot
           /\ frames' = s.frames
           /\ timers' = s.timers
           /\ cursor' = s.cursor
           /\ dragPan' = s.dragPan
           /\ instanceIds' = s.instanceIds
           /\ instanceIdCounter' = s.instanceIdCounter
           /\ safariHack' = s.safariHack
           /\ userAgent' = s.userAgent
           /\ refineStroke' = s.refineStroke
           /\ zoom' = s.zoom
           /\ mapZoom' = s.mapZoom
           /\ steps' = s.steps
           /\ circlePolygon' = s.circlePolygon
           /\ handlePoints' = s.handlePoints
           /\ last' = [op |-> op, c |-> c, arg |-> arg, err |-> s.err, ev |-> s.ev,
                        pub |-> s.pub, open |-> OpenAfter(last.open, s.pub)]
           /\ dragStart' = [b \in Circles |-> NextDragStart(s, b, op)]

\* Calls of the public API.
SetRadius(c, h) == Commit(setRadius(Cur, c, h), "setRadius", c, h)
SetCenter(c, p) == Commit(setCenter(Cur, c, p), "setCenter", c, p)
AddTo(c, m) == Commit(addTo(Cur, c, m), "addTo", c, m)
Remove(c) == Commit(remove(Cur, c), "remove", c, 0)

\* A pointer event on a handle layer of circle c on map m reaches the listeners
\* registered for that layer, while the layer is on the map.
HandleOn(m, c) == editable[c] /\ c \in assets[m]

CenterHandleMouseEnter(m, c) ==
    /\ HandleOn(m, c) /\ centerB[m][c] > 0
    /\ Commit(Times(centerB[m][c], Cur, c, "_onCenterHandleMouseEnter", 0), "centerenter", c, m)

CenterHandleMouseLeave(m, c) ==
    /\ HandleOn(m, c) /\ centerB[m][c] > 0
    /\ Commit(Times(centerB[m][c], Cur, c, "_onCenterHandleMouseLeave", 0), "centerleave", c, m)

CenterHandleMouseDown(m, c) ==
    /\ HandleOn(m, c) /\ centerB[m][c] > 0
    /\ Commit(Times(centerB[m][c], Cur, c, "_onCenterHandleMouseDown", 0), "centerdown", c, m)

RadiusHandlesMouseEnter(m, c, resize) ==
    /\ HandleOn(m, c) /\ radiusB[m][c] > 0
    /\ Commit(Times(radiusB[m][c], Cur, c, "_onRadiusHandlesMouseEnter", resize),
              "radiusenter", c, m)

RadiusHandlesMouseLeave(m, c) ==
    /\ HandleOn(m, c) /\ radiusB[m][c] > 0
    /\ Commit(Times(radiusB[m][c], Cur, c, "_onRadiusHandlesMouseLeave", 0), "radiusleave", c, m)

RadiusHandlesMouseDown(m, c, resize) ==
    /\ HandleOn(m, c) /\ radiusB[m][c] > 0
    /\ Commit(Times(radiusB[m][c], Cur, c, "_onRadiusHandlesMouseDown", resize),
              "radiusdown", c, m)

\* Pointer events on the map itself.
MouseMove(m, p, h) ==
    /\ moveL[m] # <<>>
    /\ Commit(fireMove(Cur, moveL[m], p, h), "mousemove", 0, m)

AnimationFrame ==
    /\ frames # <<>>
    /\ Commit(runFrames([Cur EXCEPT !.frames = <<>>], frames), "frame", 0, 0)

MouseUp(m) ==
    /\ upL[m] # <<>>
    /\ Commit(fireEnd(Cur, m, upL[m], "mouseup", FALSE), "mouseup", 0, m)

MouseOut(m, crossing) ==
    /\ outL[m] # <<>>
    /\ Commit(fireEnd(Cur, m, outL[m], "mouseout", crossing),
              IF crossing THEN "markerout" ELSE "mouseout", 0, m)

\* A pointer event on the fill layer of circle c on map m, at a point where the
\* handle layers of the circles in handles have a feature.
FillOn(m, c, handles) ==
    /\ c \in assets[m] /\ fillB[m][c] > 0
    /\ handles \subseteq {d \in assets[m] : editable[d]}

MouseEvent(m, handles, ctrlKey) ==
    [point |-> [m |-> m, handles |-> handles], ctrlKey |-> ctrlKey]

\* 'contextmenu' on the fill.  On Safari a context menu opened with the ctrl key
\* comes with a 'click' (CtrlClickGesture).
FillContextMenu(m, c, handles, ctrlKey) ==
    /\ FillOn(m, c, handles)
    /\ ~(ctrlKey /\ checkIfBrowserIsSafari(Cur))
    /\ Commit(Times(fillB[m][c], Cur, c, "_onCircleFillContextMenu",
                    MouseEvent(m, handles, ctrlKey)),
              "fillcontextmenu", c, MouseEvent(m, handles, ctrlKey))

\* 'click' on the fill.
FillClick(m, c, handles) ==
    /\ FillOn(m, c, handles)
    /\ Commit(Times(fillB[m][c], Cur, c, "_onCircleFillClick",
                    MouseEvent(m, handles, FALSE)),
              "fillclick", c, MouseEvent(m, handles, FALSE))

\* Safari, context menu opened with the ctrl key: 'contextmenu' with ctrlKey set,
\* followed by a 'click' at the same point.
CtrlClickGesture(m, c, handles) ==
    /\ FillOn(m, c, handles)
    /\ checkIfBrowserIsSafari(Cur)
    /\ \E s1 \in {Times(fillB[m][c], Cur, c, "_onCircleFillContextMenu",
                         MouseEvent(m, handles, TRUE))} :
           Commit(Times(s1.fillB[m][c], [s1 EXCEPT !.err = "none"], c, "_onCircleFillClick",
                        MouseEvent(m, handles, TRUE)),
                  "ctrlclick", c, MouseEvent(m, handles, TRUE))

\* The map ends a zoom at level z (in tenths): 'zoomend'.
ZoomEnd(m, z) ==
    /\ mapZoom[m] # z
    /\ Commit(fireZoomEnd([Cur EXCEPT !.mapZoom[m] = z], m, Circles), "zoomend", 0, m)

LeaveTimeout(c, kind) ==
    /\ <<c, kind>> \in timers
    /\ Commit(onLeaveTimeout([Cur EXCEPT !.timers = @ \ {<<c, kind>>}], c, kind),
              "timeout", c, kind)

\* Events of the host map's own life.
MapLoad(m) ==
    /\ ~loaded[m]
    /\ Commit(fireAdd([Cur EXCEPT !.loaded[m] = TRUE, !.styleLoaded[m] = TRUE],
                      m, onLoad[m], "load"), "load", 0, m)

MapRender(m) ==
    /\ loaded[m] /\ onRender[m] # <<>>
    /\ Commit(fireAdd(Cur, m, onRender[m], "render"), "render", 0, m)

StyleReady(m) ==
    /\ loaded[m] /\ ~styleLoaded[m]
    /\ Commit([Cur EXCEPT !.styleLoaded[m] = TRUE], "styleready", 0, m)

\* map.setStyle: the layers and sources of the old style are gone, the new style
\* is not loaded yet, and 'styledataloading' fires.
StyleDataLoading(m) ==
    /\ loaded[m] /\ styleLoaded[m]
    /\ Commit(fireStyleDataLoading([Cur EXCEPT !.styleLoaded[m] = FALSE, !.assets[m] = {}],
                                   m, Circles), "styledataloading", 0, m)

StyleData(m) ==
    /\ onStyleData[m] # <<>>
    /\ Commit(fireStyleData(Cur, m, onStyleData[m]), "styledata", 0, m)

\* ---------------------------------------------------------- initial states

\* new MapboxCircle(center, radius, options) for every circle, Math.round(radius)
\* in rs, the center in ps and options.editable in es; no map is loaded yet.
InitBrowser(cs, rs, ps, es, uas, fs) ==
    /\ editable \in [Circles -> es]
    /\ \A c \in Circles \ cs : editable[c]
    /\ map = [c \in Circles |-> NoMap]
    /\ currentRadius \in [Circles -> rs \cup {MinRadiusOpt}]
    /\ \A c \in Circles \ cs : currentRadius[c] = MinRadiusOpt
    /\ editRadius = currentRadius
    /\ lastRadius = currentRadius
    /\ currentCenter \in [Circles -> ps \cup {<<0, 0>>}]
    /\ \A c \in Circles \ cs : currentCenter[c] = <<0, 0>>
    /\ editCenter = currentCenter
    /\ lastCenter = currentCenter
    /\ centerDragActive = [c \in Circles |-> FALSE]
    /\ radiusDragActive = [c \in Circles |-> FALSE]
    /\ renderedQ = [c \in Circles |-> <<>>]
    /\ changedL = [c \in Circles |-> 0]
    /\ registry = <<>>
    /\ bcast = <<>>
    /\ loaded = [m \in Maps |-> FALSE]
    /\ styleLoaded = [m \in Maps |-> FALSE]
    /\ onLoad = [m \in Maps |-> <<>>]
    /\ onRender = [m \in Maps |-> <<>>]
    /\ onStyleData = [m \in Maps |-> <<>>]
    /\ assets = [m \in Maps |-> {}]
    /\ fillB = [m \in Maps |-> [c \in Circles |-> 0]]
    /\ centerB = [m \in Maps |-> [c \in Circles |-> 0]]
    /\ radiusB = [m \in Maps |-> [c \in Circles |-> 0]]
    /\ styleL = [m \in Maps |-> [c \in Circles |-> 0]]
    /\ upL = [m \in Maps |-> <<>>]
    /\ outL = [m \in Maps |-> <<>>]
    /\ moveL = [m \in Maps |-> <<>>]
    /\ wr = [w \in Wrappers |-> FreeWrapper]
    /\ slot = [c \in Circles |-> 0]
    /\ frames = <<>>
    /\ timers = {}
    /\ cursor = [m \in Maps |-> ""]
    /\ dragPan = [m \in Maps |-> TRUE]
    /\ instanceIds = [c \in Circles |-> Undefined]
    /\ instanceIdCounter = 0
    /\ safariHack = [c \in Circles |-> FALSE]
    /\ userAgent \in uas
    /\ refineStroke \in [Circles -> fs]
    /\ zoom = [c \in Circles |-> <<>>]
    /\ mapZoom = [m \in Maps |-> 0]
    /\ steps = [c \in Circles |-> stepCount(refineStroke[c], currentRadius[c], <<>>)]
    /\ circlePolygon = [c \in Circles |-> Shape(currentCenter[c], currentRadius[c])]
    /\ handlePoints = [c \in Circles |->
                           IF editable[c] THEN Shape(currentCenter[c], currentRadius[c])
                           ELSE <<>>]
    /\ last = [op |-> "new", c |-> 0, arg |-> 0, err |-> "none", ev |-> <<>>,
               pub |-> <<>>, open |-> <<>>]
    /\ dragStart = [c \in Circles |-> NoDrag]

\* The same in a browser whose user agent names Chrome, with the default
\* refineStroke: false.
InitWith(cs, rs, ps, es) == InitBrowser(cs, rs, ps, es, {ChromeUA}, {FALSE})

\* Every operation, on every circle and map.
Init == InitWith({}, {MinRadiusOpt}, {<<0, 0>>}, {TRUE})

Next ==
    \/ \E c \in Circles, h \in HalfRadii : SetRadius(c, h)
    \/ \E c \in Circles, p \in Positions : SetCenter(c, p)
    \/ \E c \in Circles, m \in Maps : AddTo(c, m)
    \/ \E c \in Circles : Remove(c)
    \/ \E m \in Maps, c \in Circles : CenterHandleMouseEnter(m, c)
    \/ \E m \in Maps, c \in Circles : CenterHandleMouseLeave(m, c)
    \/ \E m \in Maps, c \in Circles : CenterHandleMouseDown(m, c)
    \/ \E m \in Maps, c \in Circles, z \in {"ns-resize", "ew-resize"} :
          RadiusHandlesMouseEnter(m, c, z)
    \/ \E m \in Maps, c \in Circles : RadiusHandlesMouseLeave(m, c)
    \/ \E m \in Maps, c \in Circles, z \in {"ns-resize", "ew-resize"} :
          RadiusHandlesMouseDown(m, c, z)
    \/ \E m \in Maps, p \in Points, h \in HalfRadii : MouseMove(m, p, h)
    \/ AnimationFrame
    \/ \E m \in Maps : MouseUp(m)
    \/ \E m \in Maps, x \in BOOLEAN : MouseOut(m, x)
    \/ \E c \in Circles, k \in Kinds : LeaveTimeout(c, k)
    \/ \E m \in Maps : MapLoad(m)
    \/ \E m \in Maps : MapRender(m)
    \/ \E m \in Maps : StyleReady(m)
    \/ \E m \in Maps : StyleDataLoading(m)
    \/ \E m \in Maps : StyleData(m)
    \/ \E m \in Maps, c \in Circles, h \in SUBSET Circles, k \in BOOLEAN :
          FillContextMenu(m, c, h, k)
    \/ \E m \in Maps, c \in Circles, h \in SUBSET Circles : FillClick(m, c, h)
    \/ \E m \in Maps, c \in Circles, h \in SUBSET Circles : CtrlClickGesture(m, c, h)
    \/ \E m \in Maps, z \in ZoomTenths : ZoomEnd(m, z)

\* Radius arguments in half metres: a whole number of metres below the minimum,
\* a half metre inside the range, and a whole number of metres above the maximum.
RadiusInputs == {2 * MinRadiusOpt - 2, 2 * MinRadiusOpt + 1, 2 * MaxRadiusOpt + 2}
\* Pointer distances from the center, in half metres.
MoveInputs == {2 * MinRadiusOpt, 2 * MaxRadiusOpt + 2}

\* One editable circle with any constructor radius: its radius calls, its life on
\* a map, and pointer presses and releases on its radius handles.
InitRadius == InitWith({1}, Radii, {<<0, 0>>}, {TRUE})

NextRadius ==
    \/ \E h \in RadiusInputs : SetRadius(1, h)
    \/ AddTo(1, 1)
    \/ Remove(1)
    \/ MapLoad(1)
    \/ RadiusHandlesMouseEnter(1, 1, "ew-resize")
    \/ RadiusHandlesMouseDown(1, 1, "ew-resize")
    \/ MouseUp(1)
    \/ \E x \in BOOLEAN : MouseOut(1, x)

SpecRadius == InitRadius /\ [][NextRadius]_vars

\* One editable circle constructed within its limits and never removed: radius
\* calls and complete radius drags, moves and animation frames included.
InitResize == InitWith({1}, {MinRadiusOpt, MaxRadiusOpt}, {<<0, 0>>}, {TRUE})

NextResize ==
    \/ \E h \in RadiusInputs : SetRadius(1, h)
    \/ AddTo(1, 1)
    \/ MapLoad(1)
    \/ RadiusHandlesMouseEnter(1, 1, "ew-resize")
    \/ RadiusHandlesMouseDown(1, 1, "ew-resize")
    \/ \E h \in MoveInputs : MouseMove(1, <<0, 0>>, h)
    \/ AnimationFrame
    \/ MouseUp(1)
    \/ \E x \in BOOLEAN : MouseOut(1, x)

SpecResize == InitResize /\ [][NextResize]_vars

\* Two editable circles on one map: attach, detach, and pointer presses on the
\* center handles of both and on the radius handles of the first.
NextDrag ==
    \/ \E c \in Circles : AddTo(c, 1)
    \/ \E c \in Circles : Remove(c)
    \/ MapLoad(1)
    \/ \E c \in Circles : CenterHandleMouseEnter(1, c)
    \/ \E c \in Circles : CenterHandleMouseDown(1, c)
    \/ RadiusHandlesMouseEnter(1, 1, "ew-resize")
    \/ RadiusHandlesMouseDown(1, 1, "ew-resize")
    \/ MouseUp(1)

SpecDrag == Init /\ [][NextDrag]_vars

\* One editable circle on one map: attach, detach and every pointer event on
\* its two kinds of handle, the deferred hover resets included.
NextFlags ==
    \/ AddTo(1, 1)
    \/ Remove(1)
    \/ MapLoad(1)
    \/ CenterHandleMouseEnter(1, 1)
    \/ CenterHandleMouseLeave(1, 1)
    \/ CenterHandleMouseDown(1, 1)
    \/ RadiusHandlesMouseEnter(1, 1, "ew-resize")
    \/ RadiusHandlesMouseLeave(1, 1)
    \/ RadiusHandlesMouseDown(1, 1, "ew-resize")
    \/ \E k \in Kinds : LeaveTimeout(1, k)
    \/ MouseUp(1)
    \/ \E x \in BOOLEAN : MouseOut(1, x)

SpecFlags == Init /\ [][NextFlags]_vars

\* One editable circle that stays on its map: every pointer event on its two
\* kinds of handle, the deferred hover resets and the release.
NextHover ==
    \/ AddTo(1, 1)
    \/ MapLoad(1)
    \/ CenterHandleMouseEnter(1, 1)
    \/ CenterHandleMouseLeave(1, 1)
    \/ CenterHandleMouseDown(1, 1)
    \/ RadiusHandlesMouseEnter(1, 1, "ew-resize")
    \/ RadiusHandlesMouseLeave(1, 1)
    \/ RadiusHandlesMouseDown(1, 1, "ew-resize")
    \/ \E k \in Kinds : LeaveTimeout(1, k)
    \/ MouseUp(1)

SpecHover == Init /\ [][NextHover]_vars

\* Two editable circles on one map, never removed: pointer presses on both center
\* handles, pointer moves, animation frames and releases.
NextPair ==
    \/ \E c \in Circles : AddTo(c, 1)
    \/ MapLoad(1)
    \/ \E c \in Circles : CenterHandleMouseEnter(1, c)
    \/ \E c \in Circles : CenterHandleMouseDown(1, c)
    \/ MouseMove(1, <<1, 1>>, 2 * MinRadiusOpt)
    \/ AnimationFrame
    \/ MouseUp(1)

SpecPair == Init /\ [][NextPair]_vars

\* One editable circle on one map: its center calls with every position, attach,
\* detach, and pointer presses and releases on its center handle.
NextCenter ==
    \/ \E p \in Positions : SetCenter(1, p)
    \/ AddTo(1, 1)
    \/ Remove(1)
    \/ MapLoad(1)
    \/ CenterHandleMouseEnter(1, 1)
    \/ CenterHandleMouseDown(1, 1)
    \/ MouseUp(1)
    \/ \E x \in BOOLEAN : MouseOut(1, x)

SpecCenter == Init /\ [][NextCenter]_vars

\* Positions that change one coordinate of the constructor's center, and both.
CenterInputs == {[lat |-> 0, lng |-> 1], [lat |-> 1, lng |-> 1]}

\* One editable circle and two maps: radius and center calls before and after
\* attach, attach at once or deferred until the map has loaded, and detach.
NextQueue ==
    \/ \E h \in RadiusInputs : SetRadius(1, h)
    \/ \E p \in CenterInputs : SetCenter(1, p)
    \/ \E m \in Maps : AddTo(1, m)
    \/ Remove(1)
    \/ \E m \in Maps : MapLoad(m)

SpecQueue == Init /\ [][NextQueue]_vars

\* A style reload has detached the circle and has not attached it again yet.
ReloadPending(c) ==
    \E m \in Maps : Count(onStyleData[m], <<c, m>>) > 0 \/ Count(onRender[m], c) > 0

\* addTo called by the user on a detached circle; the user makes no call while
\* a style reload is under way.
AddToOutsideReload(c, m) == map[c] = NoMap /\ ~ReloadPending(c) /\ AddTo(c, m)

\* setRadius called by the user on an attached circle.
SetRadiusAttached(c, h) == map[c] # NoMap /\ SetRadius(c, h)

\* One editable circle on one map whose style is reloaded any number of times;
\* the user attaches the circle, sets its radius while it is attached, and
\* presses and releases its center handle.  The host map delivers 'styledata'
\* and 'render' after a reload and finishes loading the style.
NextReload ==
    \/ AddToOutsideReload(1, 1)
    \/ \E h \in RadiusInputs : SetRadiusAttached(1, h)
    \/ MapLoad(1)
    \/ StyleDataLoading(1)
    \/ StyleData(1)
    \/ StyleReady(1)
    \/ MapRender(1)
    \/ CenterHandleMouseEnter(1, 1)
    \/ CenterHandleMouseDown(1, 1)
    \/ MouseUp(1)

SpecReload ==
    /\ Init /\ [][NextReload]_vars
    /\ WF_vars(StyleData(1)) /\ WF_vars(StyleReady(1)) /\ WF_vars(MapRender(1))

\* One editable circle on one map: the user attaches and detaches it, the style
\* is reloaded, and the center handle is pressed and released.  The host map
\* delivers 'styledata' and 'render' after a reload and finishes loading the style.
NextRelease ==
    \/ AddToOutsideReload(1, 1)
    \/ Remove(1)
    \/ MapLoad(1)
    \/ StyleDataLoading(1)
    \/ StyleData(1)
    \/ StyleReady(1)
    \/ MapRender(1)
    \/ CenterHandleMouseEnter(1, 1)
    \/ CenterHandleMouseDown(1, 1)
    \/ MouseUp(1)
    \/ \E x \in BOOLEAN : MouseOut(1, x)

SpecRelease ==
    /\ Init /\ [][NextRelease]_vars
    /\ WF_vars(StyleData(1)) /\ WF_vars(StyleReady(1)) /\ WF_vars(MapRender(1))

\* setRadius arguments (half units) that round to a radius within the limits.
PlainInputs == {2 * MinRadiusOpt, 2 * MaxRadiusOpt - 1, 2 * MaxRadiusOpt}

\* A circle constructed with editable: false (the default) and a radius within
\* the limits.
InitPlain == InitWith({1}, MinRadiusOpt..MaxRadiusOpt, {<<0, 0>>}, BOOLEAN) /\ ~editable[1]

\* One circle that is not editable on one map: radius calls, attach and detach.
NextPlain ==
    \/ \E h \in PlainInputs : SetRadius(1, h)
    \/ AddTo(1, 1)
    \/ Remove(1)
    \/ MapLoad(1)

SpecPlain == InitPlain /\ [][NextPlain]_vars

\* Two circles and two maps: attach and detach in any order, so that the ids are
\* handed out in either order and to circles that are removed and attached again.
NextIds ==
    \/ \E c \in Circles, m \in Maps : AddTo(c, m)
    \/ \E c \in Circles : Remove(c)
    \/ \E m \in Maps : MapLoad(m)

SpecIds == Init /\ [][NextIds]_vars

\* Two editable circles on one map in Chrome, Safari or Firefox: attach, detach,
\* and context-menu and click events on the fills, at points with and without
\* handles.
InitFill == InitBrowser({}, {MinRadiusOpt}, {<<0, 0>>}, {TRUE}, {ChromeUA, SafariUA, FirefoxUA}, {FALSE})

NextFill ==
    \/ \E c \in Circles : AddTo(c, 1)
    \/ \E c \in Circles : Remove(c)
    \/ MapLoad(1)
    \/ \E c \in Circles, h \in SUBSET Circles, k \in BOOLEAN : FillContextMenu(1, c, h, k)
    \/ \E c \in Circles, h \in SUBSET Circles : FillClick(1, c, h)
    \/ \E c \in Circles, h \in SUBSET Circles : CtrlClickGesture(1, c, h)

SpecFill == InitFill /\ [][NextFill]_vars

\* Two circles with refineStroke on or off and a radius in metres, each on its
\* own map: attach, and zooms of either map.
InitSteps ==
    /\ InitBrowser(Circles, StepRadii, {<<0, 0>>}, {TRUE}, {ChromeUA}, BOOLEAN)
    /\ \A c \in Circles : currentRadius[c] \in StepRadii

NextSteps ==
    \/ AddTo(1, 1)
    \/ AddTo(2, 2)
    \/ \E m \in Maps : MapLoad(m)
    \/ \E m \in Maps, z \in ZoomTenths : ZoomEnd(m, z)

SpecSteps == InitSteps /\ [][NextSteps]_vars

Spec == Init /\ [][Next]_vars

(***************************************************************************)
(* Properties.                                                             *)
(***************************************************************************)

\* C1: in every reachable state, right after construction included, the
\* committed radius and the edit radius of every circle lie between
\* options.minRadius and options.maxRadius.
C1_RadiiWithinLimits ==
    \A c \in Circles :
        /\ currentRadius[c] \in MinRadiusOpt..MaxRadiusOpt
        /\ editRadius[c] \in MinRadiusOpt..MaxRadiusOpt

C3_RadiusChangedOncePerDrag ==
    [][\A c \in Circles :
          (radiusDragActive[c] /\ ~radiusDragActive'[c] /\ dragStart[c].on)
              => LET n == Count(last'.ev, <<c, "radiuschanged">>)
                 IN  /\ n <= 1
                     /\ (n = 1 => currentRadius'[c] # dragStart[c].radius)
                     /\ (dragStart[c].quiet
                             => n = 0 /\ currentRadius'[c] = dragStart[c].radius)
      ]_vars

\* C4: while a circle has a drag active, every other registered editable circle
\* has no center-handle and no radius-handle listener bound on any map.
C4_OthersSuspendedDuringDrag ==
    \A a, b \in Circles :
        (a # b /\ Dragging(Cur, a) /\ Count(registry, b) > 0)
            => \A m \in Maps : centerB[m][b] = 0 /\ radiusB[m][b] = 0

\* C5: the step that ends a circle's drag leaves every circle that was
\* registered when the drag started, and still is, with the center-handle,
\* radius-handle and fill listeners it had bound when the drag started.
C5_ResumeRestoresListeners ==
    [][\A a \in Circles :
          (dragStart[a].on /\ ~dragStart'[a].on)
              => \A b \in Circles :
                    (Count(dragStart[a].registry, b) > 0 /\ Count(registry', b) > 0)
                        => \A m \in Maps :
                              /\ centerB'[m][b] = dragStart[a].centerB[m][b]
                              /\ radiusB'[m][b] = dragStart[a].radiusB[m][b]
                              /\ fillB'[m][b] = dragStart[a].fillB[m][b]
      ]_vars

\* C6: no circle ever has its center drag and its radius drag active together.
C6_OneDragPerCircle ==
    \A c \in Circles : ~(centerDragActive[c] /\ radiusDragActive[c])

\* C7: setCenter(p) on an attached circle raises nothing, and getCenter() then
\* returns p, latitude and longitude both.
C7_SetCenterThenGet ==
    (last.op = "setCenter" /\ map[last.c] # NoMap)
        => last.err = "none" /\ getCenter(Cur, last.c) = last.arg

\* C7 happens: a position with different latitude and longitude was set on an
\* attached circle whose committed center was another, and the getter returns it.
C7_Witness ==
    /\ last.op = "setCenter" /\ map[last.c] # NoMap
    /\ last.arg = [lat |-> 1, lng |-> 0]
    /\ lastCenter[last.c] # <<0, 1>>
    /\ getCenter(Cur, last.c) = [lat |-> 1, lng |-> 0]

PendingRadii(q) == SelectSeq(q, LAMBDA u : u.kind = "radius")
PendingCenters(q) == SelectSeq(q, LAMBDA u : u.kind = "center")

\* C8: setCenter or setRadius on a detached circle raises nothing, leaves what
\* the getters return unchanged and adds one pending update; the step that
\* attaches the circle leaves no update pending and the getters returning the
\* last pending radius (clamped) and the last pending center, or what they
\* returned before when none was pending.
C8_QueuedUntilAttach ==
    [][\A c \in Circles :
          /\ (last'.op \in {"setRadius", "setCenter"} /\ last'.c = c /\ map[c] = NoMap)
                => /\ last'.err = "none"
                   /\ getRadius(Cur, c)' = getRadius(Cur, c)
                   /\ getCenter(Cur, c)' = getCenter(Cur, c)
                   /\ Len(renderedQ'[c]) = Len(renderedQ[c]) + 1
          /\ (map[c] = NoMap /\ map'[c] # NoMap)
                => LET rs == PendingRadii(renderedQ[c])
                       cs == PendingCenters(renderedQ[c])
                   IN  /\ renderedQ'[c] = <<>>
                       /\ getRadius(Cur, c)' =
                             IF rs = <<>> THEN getRadius(Cur, c)
                             ELSE ClampRadius(rs[Len(rs)].r)
                       /\ getCenter(Cur, c)' =
                             IF cs = <<>> THEN getCenter(Cur, c)
                             ELSE cs[Len(cs)].p
      ]_vars

\* C8 happens: an attach deferred until the map loaded has applied a pending
\* radius and a pending center, and nothing is pending any more.
C8_Witness ==
    /\ last.op = "load" /\ map[1] # NoMap /\ renderedQ[1] = <<>>
    /\ Count(last.ev, <<1, "radiuschanged">>) = 1
    /\ Count(last.ev, <<1, "centerchanged">>) = 1

\* What a circle has on the maps and in the registry is as it was before the step.
AttachmentUnchanged ==
    /\ map' = map /\ registry' = registry /\ bcast' = bcast /\ assets' = assets
    /\ fillB' = fillB /\ centerB' = centerB /\ radiusB' = radiusB
    /\ styleL' = styleL /\ changedL' = changedL
    /\ onLoad' = onLoad /\ onRender' = onRender

\* C9: addTo(m2) on a circle attached to another map m1 raises a TypeError and
\* changes nothing: the circle stays on m1, the registry is as before, and no
\* source, layer or listener of the circle has been added to m2.
C9_ReattachRejected ==
    [][\A c \in Circles, m \in Maps :
          (last'.op = "addTo" /\ last'.c = c /\ last'.arg = m
                /\ map[c] # NoMap /\ map[c] # m)
              => last'.err = "TypeError" /\ AttachmentUnchanged
      ]_vars

\* C10: remove() on a detached circle raises nothing and leaves the circle's
\* state and the registry unchanged.
C10_RemoveDetachedIsNoOp ==
    [][\A c \in Circles :
          (last'.op = "remove" /\ last'.c = c /\ map[c] = NoMap)
              => /\ last'.err = "none"
                 /\ AttachmentUnchanged
                 /\ currentRadius' = currentRadius /\ editRadius' = editRadius
                 /\ currentCenter' = currentCenter /\ editCenter' = editCenter
                 /\ renderedQ' = renderedQ
      ]_vars

\* Nothing of circle c is on map m: no source or layer, no static listener and
\* no move, pointer-up or pointer-out listener of a drag.
NothingOnMap(c, m) ==
    /\ c \notin assets[m]
    /\ fillB[m][c] = 0 /\ centerB[m][c] = 0 /\ radiusB[m][c] = 0 /\ styleL[m][c] = 0
    /\ \A k \in Kinds : Count(upL[m], <<c, k>>) = 0 /\ Count(outL[m], <<c, k>>) = 0
    /\ \A i \in 1..Len(moveL[m]) : wr[moveL[m][i]].c # c

\* C11: remove() on an attached circle, in whatever state it is called, leaves
\* nothing of the circle on the map, the circle out of the registry and off
\* the broadcast bus, and neither drag flag set.
C11_RemoveLeavesNothing ==
    [][\A c \in Circles :
          (last'.op = "remove" /\ last'.c = c /\ map[c] # NoMap)
              => /\ last'.err = "none"
                 /\ map'[c] = NoMap
                 /\ \A m \in Maps : m = map[c] => NothingOnMap(c, m)'
                 /\ Count(registry', c) = 0 /\ Count(bcast', c) = 0
                 /\ ~centerDragActive'[c] /\ ~radiusDragActive'[c]
      ]_vars

\* C12: after every step the getters return the committed center and radius of
\* every circle, a drag being active or not, and a setRadius or setCenter call
\* on an attached circle writes the committed value.
C12_AccessorsUseCommitted ==
    [][\A c \in Circles :
          /\ getRadius(Cur, c)' = currentRadius'[c]
          /\ getCenter(Cur, c)' = [lat |-> currentCenter'[c][2], lng |-> currentCenter'[c][1]]
          /\ (last'.op = "setRadius" /\ last'.c = c /\ map[c] # NoMap)
                => currentRadius'[c] = ClampRadius(Round(last'.arg))
          /\ (last'.op = "setCenter" /\ last'.c = c /\ map[c] # NoMap)
                => currentCenter'[c] = <<last'.arg.lng, last'.arg.lat>>
      ]_vars

AttachedAsFirst(c, m) ==
    /\ map[c] = m /\ c \in assets[m]
    /\ fillB[m][c] = 1 /\ styleL[m][c] = 1
    /\ centerB[m][c] = (IF editable[c] THEN 1 ELSE 0)
    /\ radiusB[m][c] = (IF editable[c] THEN 1 ELSE 0)
    /\ changedL[c] = (IF editable[c] THEN 1 ELSE 0)
    /\ Count(registry, c) = (IF editable[c] THEN 1 ELSE 0)
    /\ Count(bcast, c) = (IF editable[c] THEN 1 ELSE 0)
    /\ \A n \in Maps \ {m} : c \notin assets[n] /\ fillB[n][c] = 0 /\ styleL[n][c] = 0
                                /\ centerB[n][c] = 0 /\ radiusB[n][c] = 0

\* C14: addTo(m) on a detached circle with nothing pending, m loaded with its
\* style, raises no error and leaves the circle attached to m with the
\* committed radius and center it had, bound and registered as by a first
\* attach; this holds for the first attach and for every attach after a remove.
C14_ReattachAfterRemove ==
    [][\A c \in Circles, m \in Maps :
          (/\ last'.op = "addTo" /\ last'.c = c /\ last'.arg = m
           /\ map[c] = NoMap /\ loaded[m] /\ styleLoaded[m]
           /\ renderedQ[c] = <<>>
           /\ \A n \in Maps : Count(onLoad[n], c) = 0 /\ Count(onRender[n], c) = 0)
              => /\ last'.err = "none"
                 /\ AttachedAsFirst(c, m)'
                 /\ currentRadius'[c] = currentRadius[c]
                 /\ currentCenter'[c] = currentCenter[c]]_vars

\* C15: on an attached circle that is not editable, a setRadius call with a
\* radius within the limits emits 'radiuschanged' once during the call when the
\* rounded radius differs from the one getRadius() returned before the call,
\* and emits nothing when it is equal.
C15_PlainSetRadiusEmits ==
    [][\A c \in Circles :
          (/\ last'.op = "setRadius" /\ last'.c = c
           /\ map[c] # NoMap /\ ~editable[c]
           /\ Round(last'.arg) \in MinRadiusOpt..MaxRadiusOpt)
              => Count(last'.ev, <<c, "radiuschanged">>)
                    = (IF Round(last'.arg) # getRadius(Cur, c) THEN 1 ELSE 0)]_vars

\* C16: two distinct circles that have an id have different ids; an id once
\* assigned never changes, also across remove and addTo; and an id handed out
\* in a step differs from the id of every other circle, removed ones included.
C16_InstanceIdsUnique ==
    /\ [](\A c, d \in Circles :
            (c # d /\ instanceIds[c] # Undefined /\ instanceIds[d] # Undefined)
                => instanceIds[c] # instanceIds[d])
    /\ [][\A c \in Circles :
            /\ instanceIds[c] # Undefined => instanceIds'[c] = instanceIds[c]
            /\ (instanceIds[c] = Undefined /\ instanceIds'[c] # Undefined)
                  => \A d \in Circles \ {c} : instanceIds[d] # instanceIds'[c]]_vars

\* C16 happens: the second circle is attached, with an id, after the first
\* circle got its id and was removed.
C16_Witness ==
    /\ last.op = "addTo" /\ last.c = 2 /\ map[2] # NoMap
    /\ instanceIds[1] # Undefined /\ map[1] = NoMap /\ instanceIds[2] # Undefined

\* The pointer position of a fill event lies on a handle of a registered circle.
OnRegisteredHandle(event) ==
    \E d \in event.point.handles : Count(registry, d) > 0

\* C17: on Safari, a context-menu gesture with the ctrl key on a circle's fill
\* (a 'contextmenu' followed by the spurious 'click'), away from the handles,
\* makes the circle emit 'contextmenu' exactly once and no 'click'; and a click
\* on the fill, away from the handles, is emitted as exactly one 'click' and no
\* 'contextmenu'.
C17_SafariContextMenu ==
    [][\A c \in Circles :
          (/\ checkIfBrowserIsSafari(Cur)
           /\ last'.op \in {"ctrlclick", "fillclick"} /\ last'.c = c
           /\ ~OnRegisteredHandle(last'.arg))
              => IF last'.op = "ctrlclick"
                 THEN /\ Count(last'.ev, <<c, "contextmenu">>) = 1
                      /\ Count(last'.ev, <<c, "click">>) = 0
                 ELSE /\ Count(last'.ev, <<c, "click">>) = 1
                      /\ Count(last'.ev, <<c, "contextmenu">>) = 0]_vars

\* C17 happens: on Safari a context-menu gesture with ctrl away from the handles
\* has been emitted as one 'contextmenu', and the flag is reset.
C17_Witness ==
    /\ checkIfBrowserIsSafari(Cur)
    /\ last.op = "ctrlclick" /\ last.c = 1 /\ last.arg.point.handles = {}
    /\ last.ev = <<<<1, "contextmenu">>>> /\ ~safariHack[1]

\* C18: a 'click' or 'contextmenu' on a circle's fill at a position that lies on
\* a handle of a registered editable circle makes the circle emit neither
\* 'click' nor 'contextmenu'.
C18_NoFillEventOnHandle ==
    [][\A c \in Circles :
          (/\ last'.op \in {"ctrlclick", "fillclick", "fillcontextmenu"} /\ last'.c = c
           /\ OnRegisteredHandle(last'.arg))
              => /\ Count(last'.ev, <<c, "click">>) = 0
                 /\ Count(last'.ev, <<c, "contextmenu">>) = 0]_vars

\* C18 happens: a click on the fill of the first circle at a point on a handle
\* of the second, registered, circle has been handled without an error.
C18_Witness ==
    /\ last.op = "fillclick" /\ last.c = 1 /\ last.err = "none"
    /\ last.arg.point.handles = {2} /\ Count(registry, 2) > 0

\* C19: the step count that _updateCircle computed is at least 64, for every
\* radius and zoom (undefined, 0 and negative zoom included), and it is 64 when
\* refineStroke is off.
C19_StepsAtLeast64 ==
    \A c \in Circles :
        /\ steps[c] \in Int /\ steps[c] >= 64
        /\ ~refineStroke[c] => steps[c] = 64

\* C19 happens: a circle with refineStroke has computed more than 64 steps after
\* a zoom, and the other, with a negative zoom, 64.
C19_Witness ==
    /\ last.op = "zoomend"
    /\ refineStroke[1] /\ zoom[1] # <<>> /\ steps[1] > 64
    /\ refineStroke[2] /\ zoom[2] # <<>> /\ zoom[2][1] < 0 /\ steps[2] = 64

\* C20: of two circles with refineStroke, the one with the smaller or equal
\* radius and the smaller or equal zoom has the smaller or equal step count.
C20_StepsMonotone ==
    \A c, d \in Circles :
        (/\ refineStroke[c] /\ refineStroke[d]
         /\ zoom[c] # <<>> /\ zoom[d] # <<>>
         /\ radius(Cur, c) <= radius(Cur, d) /\ zoom[c][1] <= zoom[d][1])
            => steps[c] <= steps[d]

\* C21: a step that puts a circle's sources and layers on a map ends with the
\* map loaded and its style ready.
C21_AssetsOnlyWhenReady ==
    [][\A c \in Circles, m \in Maps :
          (c \notin assets[m] /\ c \in assets'[m])
              => loaded'[m] /\ styleLoaded'[m]]_vars

\* C22: a circle with no center drag has its edit center equal to its committed
\* center, and a circle with no radius drag has its edit radius equal to its
\* committed radius.
C22_EditEqualsCommitted ==
    \A c \in Circles :
        /\ ~centerDragActive[c] => editCenter[c] = currentCenter[c]
        /\ ~radiusDragActive[c] => editRadius[c] = currentRadius[c]
\* C23: the step that ends a drag by pointer-up or by an accepted pointer-out
\* leaves the committed center (radius) equal to the edit center (radius) the
\* circle had when the pointer was released.
C23_ReleaseCommitsEditValue ==
    [][\A c \in Circles :
          /\ (radiusDragActive[c] /\ ~radiusDragActive'[c]
                  /\ last'.op \in {"mouseup", "mouseout"})
                 => currentRadius'[c] = editRadius[c]
          /\ (centerDragActive[c] /\ ~centerDragActive'[c]
                  /\ last'.op \in {"mouseup", "mouseout"})
                 => currentCenter'[c] = editCenter[c]
      ]_vars
\* The publications q keep suspend and resume alternating on a bus on which open
\* is the suspend without a resume so far: a suspend comes only when none is
\* open, a resume only for the open suspend's instance id and handle kind.
RECURSIVE Alternates(_, _)
Alternates(open, q) ==
    IF q = <<>> THEN TRUE
    ELSE /\ IF Head(q)[1] = "suspend" THEN open = <<>>
            ELSE open = <<Head(q)[2], Head(q)[3]>>
         /\ Alternates(OpenAfter(open, <<Head(q)>>), Tail(q))

\* C24: suspend and resume alternate on the broadcast bus, starting with
\* suspend; the step that starts a drag publishes exactly one suspend and the
\* step that ends it exactly one resume, both with the circle's instance id and
\* the handle kind of the drag.
C24_SuspendResumeAlternate ==
    [][/\ Alternates(last.open, last'.pub)
       /\ \A c \in Circles :
            /\ (~centerDragActive[c] /\ centerDragActive'[c])
                   => last'.pub = <<<<"suspend", c, "center">>>>
            /\ (~radiusDragActive[c] /\ radiusDragActive'[c])
                   => last'.pub = <<<<"suspend", c, "radius">>>>
            /\ (centerDragActive[c] /\ ~centerDragActive'[c])
                   => last'.pub = <<<<"resume", c, "center">>>>
            /\ (radiusDragActive[c] /\ ~radiusDragActive'[c])
                   => last'.pub = <<<<"resume", c, "radius">>>>
      ]_vars
\* No map has a drag-end listener waiting for a pointer-up: every awaited
\* release has happened.
Released == \A m \in Maps : upL[m] = <<>>

\* C25: if every awaited release of the pointer happens, a drag that has started
\* ends and the suspend it published on the broadcast bus is followed by its
\* resume; the circle may be removed and the style reloaded during the drag.
C25_DragEndsAndResumes ==
    []<>Released
        => /\ centerDragActive[1] ~> ~centerDragActive[1]
           /\ (last.open # <<>>) ~> (last.open = <<>>)
\* C26: a pointer-up that ends a drag leaves the state, the raised exception, the
\* emitted events and the bus publications that an accepted pointer-out on the
\* same map would have left, with no pointer-up and no pointer-out listener of
\* a drag remaining on the map.
C26_UpAndOutEndAlike ==
    [][\A m \in Maps :
          (last'.op = "mouseup" /\ last'.arg = m /\ outL[m] # <<>>
                  /\ \E c \in Circles : Dragging(Cur, c))
              => /\ [Cur' EXCEPT !.err = last'.err, !.ev = last'.ev, !.pub = last'.pub]
                        = Gc(fireEnd(Cur, m, outL[m], "mouseout", FALSE))
                 /\ upL'[m] = <<>> /\ outL'[m] = <<>>
      ]_vars
\* C27: a pointer-out between the canvas and a marker during a drag leaves every
\* field, listener and binding as it was, the pointer-out listener armed again
\* included; it raises nothing, emits no event and publishes nothing on the bus.
C27_MarkerCrossingKeepsDrag ==
    [][(last'.op = "markerout" /\ \E c \in Circles : Dragging(Cur, c))
          => /\ Cur' = Cur
             /\ outL'[last'.arg] # <<>>
             /\ last'.err = "none" /\ last'.ev = <<>> /\ last'.pub = <<>>
             /\ last'.open = last.open
      ]_vars
\* C28: a pointer-down on the center handle of an attached circle while the
\* canvas cursor is not 'move', or on a radius handle while the cursor does not
\* end in '-resize', changes no field, listener, binding or layer; it raises
\* nothing, emits no event and publishes nothing on the bus.
C28_UnexpectedPressIgnored ==
    [][\A c \in Circles :
          (/\ last'.c = c /\ map[c] # NoMap
           /\ \/ last'.op = "centerdown" /\ cursor[map[c]] # "move"
              \/ last'.op = "radiusdown" /\ ~IsResize(cursor[map[c]]))
              => /\ Cur' = Cur
                 /\ last'.err = "none" /\ last'.ev = <<>> /\ last'.pub = <<>>
                 /\ last'.open = last.open
      ]_vars

\* A press on the center handle was ignored while the cursor showed a resize
\* arrow, and a press on a radius handle was ignored after the hover had ended.
C28_Witness ==
    /\ last.op \in {"centerdown", "radiusdown"} /\ last.err = "none"
    /\ map[last.c] # NoMap /\ ~Dragging(Cur, last.c)
    /\ upL[last.arg] = <<>> /\ outL[last.arg] = <<>> /\ moveL[last.arg] = <<>>
    /\ last.pub = <<>>
    /\ \/ last.op = "centerdown" /\ IsResize(cursor[last.arg])
       \/ last.op = "radiusdown" /\ cursor[last.arg] = "move"
\* C29: the registry of active editable circles holds exactly the attached
\* circles constructed with editable: true, each of them once.
C29_RegistryIsAttachedEditable ==
    \A c \in Circles :
        Count(registry, c) = (IF editable[c] /\ map[c] # NoMap THEN 1 ELSE 0)
\* C30: a call or pointer event that emits 'radiuschanged' ('centerchanged')
\* once for an editable circle attached before and after it changes the snapshot
\* of the last radius (center), and after a step that emits it the snapshot
\* equals the committed radius (center).
C30_ChangedEventsAreChanges ==
    [][\A c \in Circles :
          (editable[c] /\ map[c] # NoMap /\ map'[c] # NoMap)
              => LET nr == Count(last'.ev, <<c, "radiuschanged">>)
                     nc == Count(last'.ev, <<c, "centerchanged">>)
                 IN  /\ nr = 1 => lastRadius'[c] # lastRadius[c]
                     /\ nr >= 1 => lastRadius'[c] = currentRadius'[c]
                     /\ nc = 1 => lastCenter'[c] # lastCenter[c]
                     /\ nc >= 1 => lastCenter'[c] = currentCenter'[c]
      ]_vars
\* The polygon and the handle points of circle c are made from its active center
\* and radius; the polygon may be older during a center drag below 10000 m.
GeometryCurrent(c) ==
    LET active == Shape(center(Cur, c), radius(Cur, c))
    IN  /\ editable[c] => handlePoints[c] = active
        /\ ~(centerDragActive[c] /\ radius(Cur, c) < SkipPolygonBelow)
               => circlePolygon[c] = active

\* C31: after every operation that completes without an exception, the polygon
\* and the handle points of the circle it was called on, and of every circle
\* that was being dragged, are the ones made from the active center and radius
\* (the polygon excepted during a center drag with a radius below 10000 m).
C31_GeometryFollowsActiveValues ==
    [][\A c \in Circles :
          (last'.err = "none" /\ (last'.c = c \/ Dragging(Cur, c)))
              => GeometryCurrent(c)'
      ]_vars
\* The animation-frame callbacks waiting to hand a pointer move to a move handler
\* of circle c.
PendingMoves(c) == {i \in 1..Len(frames) : wr[frames[i].w].c = c}

\* C32: of the pointer moves that arrive between two animation frames at most
\* one is waiting to be handled for a circle, so that a frame hands a circle at
\* most one move and no move twice.
C32_OneMovePerFrame ==
    \A c \in Circles : Cardinality(PendingMoves(c)) <= 1
\* C33: while an attached circle has a drag active, panning of its map is
\* disabled and the canvas cursor is not reset.
C33_NoPanningDuringDrag ==
    \A c \in Circles :
        (Dragging(Cur, c) /\ map[c] # NoMap)
            => ~dragPan[map[c]] /\ cursor[map[c]] # ""
\* C34: each listener group (center handle, radius handles, fill) of a circle in
\* the registry is bound at most once on every map.
C34_GroupsBoundAtMostOnce ==
    \A c \in Circles, m \in Maps :
        Count(registry, c) > 0
            => centerB[m][c] <= 1 /\ radiusB[m][c] <= 1 /\ fillB[m][c] <= 1
\* C35: an animation frame that runs while a circle has no drag active leaves
\* the circle's committed center and radius as they were.
C35_LateMoveChangesNothing ==
    [][\A c \in Circles :
          (last'.op = "frame" /\ ~Dragging(Cur, c))
              => /\ currentRadius'[c] = currentRadius[c]
                 /\ currentCenter'[c] = currentCenter[c]
      ]_vars
\* The 'mousemove' wrappers of circle c registered on a map.
MoveListeners(c) ==
    {<<m, i>> \in Maps \X (1..MaxWrappers) : i <= Len(moveL[m]) /\ wr[moveL[m][i]].c = c}

\* Circle c has a one-time 'mouseup' or 'mouseout' listener registered on a map.
HasEndListener(c) ==
    \E m \in Maps :
        \/ \E i \in 1..Len(upL[m]) : upL[m][i][1] = c
        \/ \E i \in 1..Len(outL[m]) : outL[m][i][1] = c

\* C36: a circle has a move listener and end listeners on a map exactly when one
\* of its drag flags is set, and never more than one move listener.
C36_DragListenersIffDragging ==
    \A c \in Circles :
        /\ Dragging(Cur, c) <=> MoveListeners(c) # {}
        /\ Dragging(Cur, c) <=> HasEndListener(c)
        /\ Cardinality(MoveListeners(c)) <= 1
\* C37: setCenter(p) on an attached circle emits 'centerchanged' once if p
\* differs from the snapshot of the last center in longitude or in latitude,
\* and not at all otherwise: the test that ends a center drag.
C37_SetCenterChangeTest ==
    [][\A c \in Circles :
          (last'.op = "setCenter" /\ last'.c = c /\ map[c] # NoMap /\ last'.err = "none")
              => Count(last'.ev, <<c, "centerchanged">>)
                     = (IF \/ last'.arg.lng # lastCenter[c][1]
                           \/ last'.arg.lat # lastCenter[c][2]
                        THEN 1 ELSE 0)
      ]_vars
\* C38: a setRadius call on an attached editable circle that changes what
\* getRadius() returns, clamped or not, emits 'radiuschanged' exactly once.
C38_SetRadiusChangeEmits ==
    [][\A c \in Circles :
          (/\ last'.op = "setRadius" /\ last'.c = c /\ last'.err = "none"
           /\ editable[c] /\ map[c] # NoMap
           /\ getRadius(Cur, c)' # getRadius(Cur, c))
              => Count(last'.ev, <<c, "radiuschanged">>) = 1
      ]_vars

\* The drag of circle a that a step belongs to: the one in progress before the
\* step or, for the step that starts it, after the step.
DragOf(a) == IF dragStart[a].on THEN dragStart[a] ELSE dragStart'[a]

\* C39: a step of a drag on circle a (its start, its moves and frames, its end),
\* begun with no animation-frame callback pending, leaves the committed center
\* and radius, the edit values, the last-committed snapshots and the drag flags
\* of every other circle b that is not being dragged itself unchanged, and
\* emits no event of b.
C39_DragLeavesOthersUnchanged ==
    [][\A a \in Circles : \A b \in Circles \ {a} :
          (/\ DragOf(a).on /\ DragOf(a).frames = <<>>
           /\ last'.c # b
           /\ ~Dragging(Cur, b))
              => /\ currentCenter'[b] = currentCenter[b]
                 /\ currentRadius'[b] = currentRadius[b]
                 /\ editCenter'[b] = editCenter[b]
                 /\ editRadius'[b] = editRadius[b]
                 /\ lastCenter'[b] = lastCenter[b]
                 /\ lastRadius'[b] = lastRadius[b]
                 /\ centerDragActive'[b] = centerDragActive[b]
                 /\ radiusDragActive'[b] = radiusDragActive[b]
                 /\ \A i \in 1..Len(last'.ev) : last'.ev[i][1] # b
      ]_vars
====
